---- MODULE Spec2Model ----
(***************************************************************************)
(* Model of alexmal2804/MyDevices: the Firestore uploader                  *)
(* (src/data_uploader.py) and the test-data generator                      *)
(* (src/data_generator.py).                                                *)
(*                                                                         *)
(* Spec     : FirebaseUploader.upload_data run against a document store,   *)
(*            one or two times in a row with the same dataset.             *)
(* SpecCalls: add_to_batch and commit_batch called in any order.           *)
(* SpecGen  : the generation pipelines of data_generator.py.               *)
(* SpecDiv  : generate_divisions and assign_divisions.                     *)
(* SpecTxt  : the name cache and the text service.                         *)
(* SpecAlloc: the staff number and serial number loops.                    *)
(* SpecRun  : the program run as a script, its files and signals.          *)
(* SpecCtc  : the condition score of a device.                             *)
(* SpecCity : the city of a new employee.                                  *)
(***************************************************************************)
EXTENDS Integers, Sequences, FiniteSets, TLC

(***************************************************************************)
(* Bounds of the model.                                                    *)
(*                                                                         *)
(* BATCH_SIZE is 400 in data_uploader.py:24.  Every guard of the paging    *)
(* and flushing logic reads it through this one name; the model checks     *)
(* that logic with a scaled ceiling, large enough that the three           *)
(* reference documents alone do not fill a batch.                          *)
(***************************************************************************)
BATCH_SIZE == 4

\* largest document id that can be in the store before a sync
MaxDocId == 7

\* largest number of employees (and of devices) in a dataset handed to upload_data
MaxRecords == 5

\* number of consecutive upload_data runs that are modelled
MaxRuns == 2

(***************************************************************************)
(* Generic helpers.                                                        *)
(***************************************************************************)
Min(S) == CHOOSE x \in S : \A y \in S : x <= y

RECURSIVE SortedSeq(_)
SortedSeq(S) == IF S = {} THEN << >> ELSE << Min(S) >> \o SortedSeq(S \ {Min(S)})

Take(s, n) == SubSeq(s, 1, IF Len(s) < n THEN Len(s) ELSE n)

Range(s) == { s[i] : i \in 1..Len(s) }

(***************************************************************************)
(* The document store.  A collection is a set of documents <<id, ver>>;    *)
(* document ids are totally ordered (Firestore orders by document name),   *)
(* ver tells the snapshot a document was written by: "old" for what was    *)
(* in the store before the sync, "new" for a record of the dataset.        *)
(***************************************************************************)
collections_to_delete == << "employees", "devices", "referenceData" >>

Collections == Range(collections_to_delete)

\* referenceData document names 'cities' < 'divisions' < 'positions'
RefDocs == << 1, 2, 3 >>

Ids(docset) == { d[1] : d \in docset }

VARIABLES
    store,             \* the remote store: collection -> set of <<id, ver>>
    data,              \* the dataset handed to upload_data
    pc,                \* position of upload_data
    ci,                \* index into collections_to_delete
    docs,              \* delete_collection: the page being iterated
    deleted,           \* delete_collection: deleted
    doc_count,         \* delete_collection: doc_count
    total_deleted,     \* delete_collection: total_deleted
    dbatch,            \* delete_collection: the local delete batch
    batch,             \* self.batch: pending writes <<collection, id>>
    operation_count,   \* self.operation_count
    total_operations,  \* self.total_operations
    wi,                \* index of the write loops
    failed,            \* a store request has raised
    lastCommit,        \* kind and size of the last batch sent to the store
    run,               \* which upload_data run this is
    snapshot           \* the store as the first run left it

upVars == << store, data, pc, ci, docs, deleted, doc_count, total_deleted, dbatch,
             batch, operation_count, total_operations, wi, failed, lastCommit, run, snapshot >>

VARIABLES
    pipeline,          \* which pipeline runs: DataGenerator.generate_all_data or generate_data
    num_employees,     \* NUM_EMPLOYEES, the configured target
    num_devices,       \* NUM_DEVICES, the configured target
    gpc,               \* position of the pipeline
    employees,         \* self.employees / employees: sequence of employee records
    used_tns,          \* self.used_tns
    devices,           \* self.devices: sequence of device records
    serial_cache,      \* self._model_serial_cache: model -> [prefix, counter, used]
    device_count,      \* generate_all_data: device_count
    ei,                \* index of the employee loops
    ti,                \* index into mandatory_devices / extra_devices
    clock,             \* datetime.now(), in months
    ticks,             \* how often the month has changed during the run
    failures,          \* the per-entity calls that raised inside their try block
    outcome            \* what the last generate_employee / generate_device call returned

genVars == << pipeline, num_employees, num_devices, gpc, employees, used_tns, devices,
              serial_cache, device_count, ei, ti, clock, ticks, failures, outcome >>

VARIABLES
    division           \* emp.division of self.employees[i], "" until assigned

divVars == << division >>

VARIABLES
    service_up,        \* whether the text service can answer at all
    fio_cache_set,     \* hasattr(self, '_fio_cache')
    fio_cache,         \* self._fio_cache: sequence of names
    tpc,               \* how the last adapter call ended: "ready", "returned", "raised"
    calls,             \* adapter calls made so far
    requests,          \* requests the last _generate_fios_batch call sent to the service
    response,          \* what the service answered to the last request
    api_added,         \* the names the last call took from the service's answer
    source,            \* what the last call filled the cache from: "api", "fallback", "none"
    handed             \* the name the last _generate_fio call returned

txtVars == << service_up, fio_cache_set, fio_cache, tpc, calls, requests, response,
              api_added, source, handed >>

VARIABLES
    tn_drawn           \* generate_employee: the staff number drawn last (line 319)

allocVars == << tn_drawn >>

VARIABLES
    rpc,               \* the script: where the process is
    run_no,            \* the script: which run of the program this is
    handlers,          \* loop.add_signal_handler is supported (lines 1535-1540)
    cache_file,        \* reference_cache.json: << >> or << its text >>
    stats_file,        \* data/generation_stats.json: << >> or << its content >>
    data_file,         \* data/generated_data.json exists
    ref_data,          \* generate_data: ref_data, << >> before line 1193
    ref_calls,         \* every generate_reference_data call: the file before and after,
                       \* the value returned
    target_employees,  \* NUM_EMPLOYEES (line 70)
    target_devices,    \* NUM_DEVICES (line 71)
    emp_i,             \* generate_data: i of the loop at line 1215
    run_employees,     \* generate_data: len(employees)
    run_devices,       \* generate_data: len(devices)
    gd_result,         \* what generate_data returned: "pending", "dict" or "None"
    main_result,       \* what main() returned, << >> before it returns
    exit_code,         \* the argument of exit(), << >> before line 1568
    sig,               \* the signal delivered to the process, "none" before
    sig_phase,         \* where the process was when the signal arrived
    after_signal       \* per-entity iterations run since the signal arrived

runVars == << rpc, run_no, handlers, cache_file, stats_file, data_file, ref_data, ref_calls,
              target_employees, target_devices, emp_i, run_employees, run_devices,
              gd_result, main_result, exit_code, sig, sig_phase, after_signal >>

VARIABLES
    cpc,               \* _calculate_ctc: "idle", "call" or "returned"
    date_receipt,      \* _calculate_ctc: the date in date_receipt as << year, month, day >>,
                       \* << >> for a string strptime cannot read
    base_ctc,          \* _calculate_ctc: base_ctc (0 before it is drawn)
    jitter,            \* _calculate_ctc: the deviation drawn at line 579
    ctc                \* _calculate_ctc: the value returned (0 before)

ctcVars == << cpc, date_receipt, base_ctc, jitter, ctc >>

VARIABLES
    locations          \* the location of every employee made so far, in order

cityVars == << locations >>

fnVars == << ctcVars, cityVars >>

auxVars == << divVars, txtVars, allocVars, runVars, fnVars >>

vars == << upVars, genVars, auxVars >>

(***************************************************************************)
(* Store requests.                                                         *)
(***************************************************************************)
\* collection_ref.limit(n).stream(), or collection_ref.start_after(doc).limit(n).stream():
\* documents in name order, strictly after the cursor document
Stream(c, after, n) == Take(SortedSeq({ i \in Ids(store[c]) : i > after }), n)

\* a committed batch of deletes
ApplyDeletes(st, c, ids) == [st EXCEPT ![c] = { d \in @ : d[1] \notin Range(ids) }]

\* one batch.set(doc_ref, data): the document is created or overwritten
SetDoc(st, w) == [st EXCEPT ![w[1]] = { d \in @ : d[1] # w[2] } \cup { << w[2], "new" >> }]

RECURSIVE ApplyWrites(_, _)
ApplyWrites(st, ws) == IF ws = << >> THEN st
                       ELSE ApplyWrites(SetDoc(st, Head(ws)), Tail(ws))

\* batch.commit() of the local delete batch in delete_collection (lines 110, 134)
CommitDeletes(st, c, ids, ok) ==
    [ store |-> IF ok THEN ApplyDeletes(st, c, ids) ELSE st,
      sent  |-> << "delete", Len(ids) >>,
      fail  |-> ~ok,
      raised |-> ~ok ]

(***************************************************************************)
(* FirebaseUploader.commit_batch and add_to_batch, on the uploader fields  *)
(* u = [batch, operation_count, total_operations].  ok says whether the    *)
(* store accepts the commit request, if one is made.                       *)
(***************************************************************************)
\* line 156
CommitNeeded(u) == u.operation_count > 0

commit_batch(u, st, last, ok) ==
    IF CommitNeeded(u)
    THEN IF ok
         THEN [ batch |-> << >>, operation_count |-> 0,
                total_operations |-> u.total_operations,
                store |-> ApplyWrites(st, u.batch),
                sent |-> << "write", Len(u.batch) >>, fail |-> FALSE, raised |-> FALSE ]
         ELSE [ batch |-> u.batch, operation_count |-> u.operation_count,
                total_operations |-> u.total_operations,
                store |-> st,
                sent |-> << "write", Len(u.batch) >>, fail |-> TRUE, raised |-> TRUE ]
    ELSE [ batch |-> u.batch, operation_count |-> u.operation_count,
           total_operations |-> u.total_operations,
           store |-> st, sent |-> last, fail |-> FALSE, raised |-> FALSE ]

\* mutant of FlushDue: > for >=
FlushDue_late(count) == count > BATCH_SIZE

\* line 151
FlushDue(count) == count >= BATCH_SIZE

add_to_batch(u, st, last, w, ok) ==
    LET u1 == [ batch |-> Append(u.batch, w),
                operation_count |-> u.operation_count + 1,
                total_operations |-> u.total_operations + 1 ]
    IN  IF FlushDue(u1.operation_count)
        THEN commit_batch(u1, st, last, ok)
        ELSE [ batch |-> u1.batch, operation_count |-> u1.operation_count,
               total_operations |-> u1.total_operations,
               store |-> st, sent |-> last, fail |-> FALSE, raised |-> FALSE ]

Uploader == [ batch |-> batch, operation_count |-> operation_count,
              total_operations |-> total_operations ]

(***************************************************************************)
(* Initial states: an arbitrary previous snapshot in the store, a dataset  *)
(* as the generator writes it (ids 1..n, with or without the               *)
(* 'reference_data' key), a fresh FirebaseUploader.                        *)
(***************************************************************************)
\* ids lo..hi of the previous snapshot; names need not start where the dataset's do
OldIdSets == { lo..hi : lo \in 1..2, hi \in 0..MaxDocId }

OldDocs(S) == { << i, "old" >> : i \in S }

IdSeq(n) == [ i \in 1..n |-> i ]

Datasets == [ reference_data : BOOLEAN,
              employees : { IdSeq(n) : n \in 0..MaxRecords },
              devices : { IdSeq(n) : n \in 0..MaxRecords } ]

NoStore == [ c \in Collections |-> {} ]

UpInit ==
    /\ \E e \in OldIdSets, d \in OldIdSets, r \in OldIdSets :
          store = [ c \in Collections |->
                      IF c = "employees" THEN OldDocs(e)
                      ELSE IF c = "devices" THEN OldDocs(d) ELSE OldDocs(r) ]
    /\ data \in Datasets
    /\ pc = "del_query"
    /\ ci = 1
    /\ docs = << >>
    /\ deleted = 0
    /\ doc_count = 0
    /\ total_deleted = 0
    /\ dbatch = << >>
    /\ batch = << >>
    /\ operation_count = 0
    /\ total_operations = 0
    /\ wi = 1
    /\ failed = FALSE
    /\ lastCommit = << "none", 0 >>
    /\ run = 1
    /\ snapshot = NoStore

(***************************************************************************)
(* delete_collection (lines 77-141), called by upload_data for each of     *)
(* collections_to_delete (lines 176-182).  An exception is logged and      *)
(* re-raised by delete_collection and again by upload_data.                *)
(***************************************************************************)
Cur == collections_to_delete[ci]

\* mutant of Propagate: the error is logged and swallowed
Propagate_swallow(raised, next) == next

\* upload_data's except/raise (lines 180-182, 234-236): the error reaches the caller
Propagate(raised, next) == IF raised THEN "raised" ELSE next

\* lines 89-96: the first page
DelQuery ==
    /\ pc = "del_query"
    /\ \E ok \in BOOLEAN :
          /\ docs' = IF ok THEN Stream(Cur, 0, BATCH_SIZE) ELSE docs
          /\ failed' = ~ok
          /\ pc' = Propagate(~ok, "del_iter")
    /\ deleted' = 0
    /\ total_deleted' = 0
    /\ doc_count' = 0
    /\ dbatch' = << >>
    /\ UNCHANGED << store, data, ci, batch, operation_count, total_operations, wi,
                    lastCommit, run, snapshot >>
    /\ UNCHANGED genVars
    /\ UNCHANGED auxVars

\* line 109
PageFull(n) == n % BATCH_SIZE = 0

\* lines 103-113: one iteration of the for loop, or its end
DelIter ==
    /\ pc = "del_iter"
    /\ IF docs = << >>
       THEN /\ pc' = "del_after"
            /\ UNCHANGED << store, docs, deleted, doc_count, dbatch, failed, lastCommit >>
       ELSE /\ deleted' = deleted + 1
            /\ doc_count' = doc_count + 1
            /\ docs' = Tail(docs)
            /\ IF PageFull(deleted + 1)
               THEN \E ok \in BOOLEAN :
                       LET r == CommitDeletes(store, Cur, Append(dbatch, Head(docs)), ok)
                       IN  /\ store' = r.store
                           /\ lastCommit' = r.sent
                           /\ failed' = r.fail
                           /\ dbatch' = IF r.raised THEN Append(dbatch, Head(docs)) ELSE << >>
                           /\ pc' = Propagate(r.raised, "del_after")
               ELSE /\ dbatch' = Append(dbatch, Head(docs))
                    /\ UNCHANGED << store, lastCommit, failed, pc >>
    /\ UNCHANGED << data, ci, total_deleted, batch, operation_count, total_operations,
                    wi, run, snapshot >>
    /\ UNCHANGED genVars
    /\ UNCHANGED auxVars

\* line 118
LastPage(n) == n < BATCH_SIZE

\* lines 123-130: the next page starts after the first document that is left
NextPage(c) ==
    LET first == Stream(c, 0, BATCH_SIZE)
    IN  IF first = << >> THEN << >> ELSE Stream(c, Head(first), BATCH_SIZE)

\* lines 115-130
DelAfter ==
    /\ pc = "del_after"
    /\ total_deleted' = total_deleted + doc_count
    /\ IF LastPage(doc_count) \/ Stream(Cur, 0, BATCH_SIZE) = << >>
       THEN /\ pc' = "del_final"
            /\ UNCHANGED << docs, doc_count, failed >>
       ELSE \E ok \in BOOLEAN :
               /\ docs' = IF ok THEN NextPage(Cur) ELSE docs
               /\ doc_count' = IF ok THEN 0 ELSE doc_count
               /\ failed' = ~ok
               /\ pc' = Propagate(~ok, "del_iter")
    /\ UNCHANGED << store, data, ci, deleted, dbatch, batch, operation_count,
                    total_operations, wi, lastCommit, run, snapshot >>
    /\ UNCHANGED genVars
    /\ UNCHANGED auxVars

\* lines 133-134
DelFinal ==
    /\ pc = "del_final"
    /\ IF ~PageFull(deleted)
       THEN \E ok \in BOOLEAN :
               LET r == CommitDeletes(store, Cur, dbatch, ok)
               IN  /\ store' = r.store
                   /\ lastCommit' = r.sent
                   /\ failed' = r.fail
                   /\ pc' = Propagate(r.raised, "del_ret")
       ELSE /\ pc' = "del_ret"
            /\ UNCHANGED << store, lastCommit, failed >>
    /\ UNCHANGED << data, ci, docs, deleted, doc_count, total_deleted, dbatch, batch,
                    operation_count, total_operations, wi, run, snapshot >>
    /\ UNCHANGED genVars
    /\ UNCHANGED auxVars

\* the writes start after the first collection is deleted
AfterDelete_early(i) == "write_ref"

\* lines 176-184: the for loop over collections_to_delete ends before the first write
AfterDelete(i) == IF i < Len(collections_to_delete) THEN "del_query" ELSE "write_ref"

\* lines 136-137 and 176-179: delete_collection has returned; next collection or the writes
DelReturn ==
    /\ pc = "del_ret"
    /\ pc' = AfterDelete(ci)
    /\ ci' = IF pc' = "del_query" THEN ci + 1 ELSE ci
    /\ wi' = 1
    /\ UNCHANGED << store, data, docs, deleted, doc_count, total_deleted, dbatch, batch,
                    operation_count, total_operations, failed, lastCommit, run, snapshot >>
    /\ UNCHANGED genVars
    /\ UNCHANGED auxVars

(***************************************************************************)
(* The write phase of upload_data (lines 184-232).                         *)
(***************************************************************************)
\* the effect of one add_to_batch or commit_batch call on the uploader and the store
Effect(r, next) ==
    /\ store' = r.store
    /\ batch' = r.batch
    /\ operation_count' = r.operation_count
    /\ total_operations' = r.total_operations
    /\ lastCommit' = r.sent
    /\ failed' = r.fail
    /\ pc' = Propagate(r.raised, next)

writeFrame == << data, ci, docs, deleted, doc_count, total_deleted, dbatch, run, snapshot >>

\* lines 185-200: the three reference documents, if the dataset has the key
WriteRef ==
    /\ pc = "write_ref"
    /\ IF data.reference_data
       THEN \E ok \in BOOLEAN :
               /\ Effect(add_to_batch(Uploader, store, lastCommit,
                                      << "referenceData", RefDocs[wi] >>, ok),
                         IF wi < Len(RefDocs) THEN "write_ref" ELSE "write_emp")
               /\ wi' = IF wi < Len(RefDocs) THEN wi + 1 ELSE 1
       ELSE /\ pc' = "write_emp"
            /\ wi' = 1
            /\ UNCHANGED << store, batch, operation_count, total_operations,
                            lastCommit, failed >>
    /\ UNCHANGED writeFrame
    /\ UNCHANGED genVars
    /\ UNCHANGED auxVars

\* lines 203-211: the employees loop; skipped as a whole, commit included, when the list is empty
WriteEmp ==
    /\ pc = "write_emp"
    /\ IF data.employees = << >>
       THEN /\ pc' = "write_dev"
            /\ wi' = 1
            /\ UNCHANGED << store, batch, operation_count, total_operations,
                            lastCommit, failed >>
       ELSE \E ok \in BOOLEAN :
               /\ Effect(add_to_batch(Uploader, store, lastCommit,
                                      << "employees", data.employees[wi] >>, ok),
                         IF wi < Len(data.employees) THEN "write_emp" ELSE "commit_emp")
               /\ wi' = wi + 1
    /\ UNCHANGED writeFrame
    /\ UNCHANGED genVars
    /\ UNCHANGED auxVars

\* line 213
CommitEmp ==
    /\ pc = "commit_emp"
    /\ \E ok \in BOOLEAN : Effect(commit_batch(Uploader, store, lastCommit, ok), "write_dev")
    /\ wi' = 1
    /\ UNCHANGED writeFrame
    /\ UNCHANGED genVars
    /\ UNCHANGED auxVars

\* lines 217-224
WriteDev ==
    /\ pc = "write_dev"
    /\ IF data.devices = << >>
       THEN /\ pc' = "done"
            /\ wi' = 1
            /\ UNCHANGED << store, batch, operation_count, total_operations,
                            lastCommit, failed >>
       ELSE \E ok \in BOOLEAN :
               /\ Effect(add_to_batch(Uploader, store, lastCommit,
                                      << "devices", data.devices[wi] >>, ok),
                         IF wi < Len(data.devices) THEN "write_dev" ELSE "commit_dev")
               /\ wi' = wi + 1
    /\ UNCHANGED writeFrame
    /\ UNCHANGED genVars
    /\ UNCHANGED auxVars

\* line 226, then the normal return (lines 229-232)
CommitDev ==
    /\ pc = "commit_dev"
    /\ \E ok \in BOOLEAN : Effect(commit_batch(Uploader, store, lastCommit, ok), "done")
    /\ wi' = 1
    /\ UNCHANGED writeFrame
    /\ UNCHANGED genVars
    /\ UNCHANGED auxVars

\* main (lines 238-255) run once more: a new FirebaseUploader (lines 27-31), the same
\* data file, the store as the previous run left it
SyncAgain ==
    /\ pc = "done"
    /\ run < MaxRuns
    /\ run' = run + 1
    /\ snapshot' = store
    /\ batch' = << >>
    /\ operation_count' = 0
    /\ total_operations' = 0
    /\ lastCommit' = << "none", 0 >>
    /\ pc' = "del_query"
    /\ ci' = 1
    /\ wi' = 1
    /\ UNCHANGED << store, data, docs, deleted, doc_count, total_deleted, dbatch, failed >>
    /\ UNCHANGED genVars
    /\ UNCHANGED auxVars

Next ==
    \/ DelQuery
    \/ DelIter
    \/ DelAfter
    \/ DelFinal
    \/ DelReturn
    \/ WriteRef
    \/ WriteEmp
    \/ CommitEmp
    \/ WriteDev
    \/ CommitDev
    \/ SyncAgain

(***************************************************************************)
(* data_generator.py.  Strings whose characters matter (staff numbers,     *)
(* serial numbers) are sequences of one-character strings.                 *)
(***************************************************************************)
\* largest number of employees and of devices a run is configured for
MaxEmployees == 2

MaxDevices == 7

\* how many staff numbers of the keyspace random.randint is let to draw
MaxTnDraws == 2

\* the month in which the run starts (year * 12 + month - 1), and how often it may change
ClockStart == 24322

MaxTicks == 1

\* how many per-entity calls of a run may raise inside their try block
MaxFailures == 1

DigitChars == << "0", "1", "2", "3", "4", "5", "6", "7", "8", "9" >>

DigitChar(d) == DigitChars[d + 1]

RECURSIVE Decimal(_)
\* str(n) for n >= 0
Decimal(n) == IF n < 10 THEN << DigitChar(n) >>
              ELSE Decimal(n \div 10) \o << DigitChar(n % 10) >>

RECURSIVE Zeros(_)
Zeros(k) == IF k <= 0 THEN << >> ELSE << "0" >> \o Zeros(k - 1)

\* f"{n:0{w}d}": zero-padded to at least w characters
Fmt(n, w) == Zeros(w - Len(Decimal(n))) \o Decimal(n)

\* ord(c), for the characters serial numbers are made of
Ord(c) ==
    CASE c = "0" -> 48 [] c = "1" -> 49 [] c = "2" -> 50 [] c = "3" -> 51
      [] c = "4" -> 52 [] c = "5" -> 53 [] c = "6" -> 54 [] c = "7" -> 55
      [] c = "8" -> 56 [] c = "9" -> 57
      [] c = "A" -> 65 [] c = "C" -> 67 [] c = "D" -> 68 [] c = "G" -> 71
      [] c = "H" -> 72 [] c = "L" -> 76 [] c = "M" -> 77 [] c = "N" -> 78
      [] c = "P" -> 80 [] c = "S" -> 83 [] c = "T" -> 84 [] c = "W" -> 87
      [] c = "X" -> 88

RECURSIVE SumOrd(_)
SumOrd(str) == IF str = << >> THEN 0 ELSE Ord(Head(str)) + SumOrd(Tail(str))

DeviceTypes == { "DESKTOP", "LAPTOP", "MONITOR", "KEYBOARD", "MOUSE", "PHONE", "TABLET" }

\* lines 109-134
DEVICE_MODELS ==
    [ DESKTOP  |-> << "Dell OptiPlex 3080", "HP ProDesk 400 G7", "Lenovo ThinkCentre M75q",
                      "Acer Veriton X2660G", "HP EliteDesk 800 G6" >>,
      LAPTOP   |-> << "Dell Latitude 5420", "HP EliteBook 840 G8", "Lenovo ThinkPad T14",
                      "Apple MacBook Pro 16" >>,
      MONITOR  |-> << "Dell U2419H", "LG 24MK400H-B", "Samsung S24R350", "Acer R240Y",
                      "HP 24mh" >>,
      KEYBOARD |-> << "Logitech K120", "Dell KB216", "HP K1500", "A4Tech KR-85" >>,
      MOUSE    |-> << "Logitech M90", "Dell MS116", "HP X500", "A4Tech OP-620D" >>,
      PHONE    |-> << "Cisco 8845", "Yealink T54W", "Grandstream GXP2170",
                      "Panasonic KX-UT113" >>,
      TABLET   |-> << "Apple iPad Pro 12.9", "Samsung Galaxy Tab S7", "Huawei MatePad Pro" >> ]

\* random.choice(DEVICE_MODELS[t]): the model lets it draw the first model of the list,
\* which gives devices of one model (any type twice) and models of one manufacturer
\* (desktop and monitor, keyboard and mouse)
ModelChoices(t) == { Head(DEVICE_MODELS[t]) }

\* the prefix_map key that occurs in the model's name (name.lower() in model.lower())
NameIn(model) ==
    CASE model \in { "Dell OptiPlex 3080", "Dell Latitude 5420", "Dell U2419H",
                     "Dell KB216", "Dell MS116" } -> "Dell"
      [] model \in { "HP ProDesk 400 G7", "HP EliteDesk 800 G6", "HP EliteBook 840 G8",
                     "HP 24mh", "HP K1500", "HP X500" } -> "HP"
      [] model \in { "Lenovo ThinkCentre M75q", "Lenovo ThinkPad T14" } -> "Lenovo"
      [] model \in { "Acer Veriton X2660G", "Acer R240Y" } -> "Acer"
      [] model \in { "LG 24MK400H-B" } -> "LG"
      [] model \in { "Samsung S24R350", "Samsung Galaxy Tab S7" } -> "Samsung"
      [] model \in { "Apple MacBook Pro 16", "Apple iPad Pro 12.9" } -> "Apple"
      [] model \in { "Logitech K120", "Logitech M90" } -> "Logitech"
      [] model \in { "Huawei MatePad Pro" } -> "Huawei"
      [] model \in { "A4Tech KR-85", "A4Tech OP-620D" } -> "A4Tech"
      [] OTHER -> "none"

\* lines 498-510
prefix_map ==
    << << "Dell", << "D", "L" >> >>, << "HP", << "H", "P" >> >>,
       << "Lenovo", << "L", "N" >> >>, << "Acer", << "A", "C" >> >>,
       << "LG", << "L", "G" >> >>, << "Samsung", << "S", "M" >> >>,
       << "Apple", << "A", "P" >> >>, << "Logitech", << "L", "G" >> >>,
       << "Huawei", << "H", "W" >> >>, << "Xiaomi", << "X", "M" >> >>,
       << "A4Tech", << "A", "T" >> >> >>

\* lines 513-517: 'SN' unless a manufacturer of prefix_map is named
PrefixOf(model) ==
    LET hits == { i \in 1..Len(prefix_map) : prefix_map[i][1] = NameIn(model) }
    IN  IF hits = {} THEN << "S", "N" >> ELSE prefix_map[Min(hits)][2]

RECURSIVE SumDigits(_)
SumDigits(str) == IF str = << >> THEN 0
                  ELSE (IF Ord(Head(str)) < 58 THEN Ord(Head(str)) - 48 ELSE 0)
                       + SumDigits(Tail(str))

\* mutant of Checksum: the digits' values are summed, not the character codes
Checksum_digits(base) == DigitChar(SumDigits(base) % 10)

\* line 544: the sum of the character codes modulo 10
Checksum(base) == DigitChar(SumOrd(base) % 10)

\* lines 532-545: the candidate serial for a counter value
SerialOf(prefix, clk, counter) ==
    LET year  == Fmt((clk \div 12) % 100, 2)
        month == Fmt((clk % 12) + 1, 2)
        base  == prefix \o year \o month \o Fmt(counter, 6)
    IN  base \o << Checksum(base) >>

\* line 537
NextCounter(counter) == counter + 1

RECURSIVE SerialLoop(_, _)
\* lines 530-550: count on until the serial is not in the model's used set
SerialLoop(entry, clk) ==
    LET counter == NextCounter(entry.counter)
        serial  == SerialOf(entry.prefix, clk, counter)
    IN  IF serial \notin entry.used
        THEN [ entry |-> [ prefix |-> entry.prefix, counter |-> counter,
                           used |-> entry.used \cup { serial } ],
               serial |-> serial ]
        ELSE SerialLoop([ entry EXCEPT !.counter = counter ], clk)

\* lines 496-524: the key under which a model's serials are tracked
CacheKey(model) == model

\* mutant of generate_serial_number: the model's cache entry is initialised on every call
generate_serial_number_reinit(cache, model, clk) ==
    LET key == CacheKey(model)
        r   == SerialLoop([ prefix |-> PrefixOf(model), counter |-> 0, used |-> {} ], clk)
    IN  [ cache |-> (key :> r.entry) @@ cache, serial |-> r.serial ]

\* DataGenerator._generate_serial_number (lines 490-550)
generate_serial_number(cache, model, clk) ==
    LET key   == CacheKey(model)
        entry == IF key \in DOMAIN cache THEN cache[key]
                 ELSE [ prefix |-> PrefixOf(model), counter |-> 0, used |-> {} ]
        r     == SerialLoop(entry, clk)
    IN  [ cache |-> (key :> r.entry) @@ cache, serial |-> r.serial ]

\* DEVICE_DEFAULTS (lines 144-179): the device types flagged manager_only
manager_only == { "LAPTOP", "TABLET" }

\* generate_device storing no owner
generate_device_noowner(devs, cache, device_id, emp_id, is_manager, device_type, model, clk, raises) ==
    LET r == generate_serial_number(cache, model, clk)
    IN  IF raises
        THEN [ devices |-> devs, cache |-> cache, result |-> "None" ]
        ELSE [ devices |-> Append(devs, [ device_id |-> device_id, emp_id |-> 0,
                                          type |-> device_type, model |-> model,
                                          serial_number |-> r.serial ]),
               cache |-> r.cache, result |-> "device" ]

\* DataGenerator.generate_device (lines 361-461) with device_type and model given:
\* the device is appended to self.devices and returned (lines 442-455); if the try
\* block raises (here: before the serial number is taken) the except branch prints
\* and returns None, and nothing is appended (lines 457-461)
generate_device(devs, cache, device_id, emp_id, is_manager, device_type, model, clk, raises) ==
    LET r == generate_serial_number(cache, model, clk)
    IN  IF raises
        THEN [ devices |-> devs, cache |-> cache, result |-> "None" ]
        ELSE [ devices |-> Append(devs, [ device_id |-> device_id, emp_id |-> emp_id,
                                          type |-> device_type, model |-> model,
                                          serial_number |-> r.serial ]),
               cache |-> r.cache, result |-> "device" ]

(***************************************************************************)
(* The pipelines.  DataGenerator.generate_all_data (lines 704-872) makes   *)
(* the employees, then the devices in three passes; generate_data (lines   *)
(* 1179-1377) makes its employees with the module-level generate_employee. *)
(***************************************************************************)
\* generate_positions (lines 283-299): the is_manager flag of each position
positions == << TRUE, TRUE, TRUE, TRUE, TRUE, TRUE, TRUE,
                FALSE, FALSE, FALSE, FALSE, FALSE, FALSE, FALSE, FALSE >>

\* line 319: random.randint(1, 99999999), formatted :08d
TN_LOW == 1

TN_HIGH == 99999999

TN_WIDTH == 8

\* line 1110: random.randint(10000000, 99999999), unformatted
GD_TN_LOW == 10000000

\* the staff numbers random.randint is let to draw: the lowest ones and the highest
Draws(low, high) == (low .. (low + MaxTnDraws - 1)) \cup { high }

GenInit ==
    /\ pipeline \in { "generate_all_data", "generate_data" }
    /\ num_employees \in 0..MaxEmployees
    /\ num_devices \in 0..MaxDevices
    /\ gpc = "employees"
    /\ employees = << >>
    /\ used_tns = {}
    /\ devices = << >>
    /\ serial_cache = << >>
    /\ device_count = 0
    /\ ei = 1
    /\ ti = 1
    /\ clock = ClockStart
    /\ ticks = 0
    /\ failures = {}
    /\ outcome = "none"

\* whether one more per-entity call may raise
CanFail == Cardinality(failures) < MaxFailures

\* lines 318-322: whether a drawn staff number is taken
TnAccepted(tn, used) == tn \notin used

\* lines 348-359: the employee the except branch of generate_employee returns
stub_employee(emp_id) == [ empID |-> emp_id, tn |-> << >>, is_manager |-> FALSE ]

\* one pass of the loop of DataGenerator.generate_employee (lines 311-346), called by
\* generate_all_data (lines 720-723): a colliding draw is redrawn.  If the try block
\* raises, the stub is returned without having been appended to self.employees
\* (lines 348-359), and generate_all_data, which drops the returned value (line 723),
\* goes on with the next emp_id
GenerateEmployee ==
    /\ pipeline = "generate_all_data"
    /\ gpc = "employees"
    /\ ei <= num_employees
    /\ \E n \in Draws(TN_LOW, TN_HIGH), p \in 1..Len(positions), raises \in BOOLEAN :
          LET tn == Fmt(n, TN_WIDTH)
          IN  IF raises
              THEN /\ CanFail
                   /\ failures' = failures \cup { << "employee", ei >> }
                   /\ outcome' = "stub"
                   /\ ei' = ei + 1
                   /\ UNCHANGED << used_tns, employees >>
              ELSE IF TnAccepted(tn, used_tns)
              THEN /\ used_tns' = used_tns \cup { tn }
                   /\ employees' = Append(employees,
                                          [ empID |-> ei, tn |-> tn, is_manager |-> positions[p] ])
                   /\ ei' = ei + 1
                   /\ outcome' = "employee"
                   /\ UNCHANGED failures
              ELSE UNCHANGED << used_tns, employees, ei, failures, outcome >>
    /\ UNCHANGED << pipeline, num_employees, num_devices, gpc, devices, serial_cache,
                    device_count, ti, clock, ticks >>
    /\ UNCHANGED upVars
    /\ UNCHANGED auxVars

\* lines 725-731: the employees are made; the device passes start
EmployeesDone ==
    /\ pipeline = "generate_all_data"
    /\ gpc = "employees"
    /\ ei > num_employees
    /\ gpc' = "mandatory"
    /\ ei' = 1
    /\ ti' = 1
    /\ device_count' = 0
    /\ UNCHANGED << pipeline, num_employees, num_devices, employees, used_tns, devices,
                    serial_cache, clock, ticks, failures, outcome >>
    /\ UNCHANGED upVars
    /\ UNCHANGED auxVars

\* generate_employee (lines 1079-1115) called by generate_data (lines 1215-1221);
\* positions come from the reference data, which has managers and others.  The
\* function has no try block: if it raises (random.choice on an empty city or
\* position list of the reference data, lines 1100-1104) the exception reaches the
\* except branch of generate_data, which returns None (lines 1373-1377)
GdGenerateEmployee ==
    /\ pipeline = "generate_data"
    /\ gpc = "employees"
    /\ IF ei <= num_employees
       THEN \E n \in Draws(GD_TN_LOW, TN_HIGH), m \in BOOLEAN, raises \in BOOLEAN :
               IF raises
               THEN /\ CanFail
                    /\ failures' = failures \cup { << "employee", ei >> }
                    /\ outcome' = "raised"
                    /\ gpc' = "gd_failed"
                    /\ UNCHANGED << employees, ei >>
               ELSE /\ employees' = Append(employees,
                                           [ empID |-> ei, tn |-> Decimal(n), is_manager |-> m ])
                    /\ ei' = ei + 1
                    /\ gpc' = gpc
                    /\ outcome' = "employee"
                    /\ UNCHANGED failures
       ELSE /\ gpc' = "gd_devices"
            /\ UNCHANGED << employees, ei, failures, outcome >>
    /\ UNCHANGED << pipeline, num_employees, num_devices, used_tns, devices, serial_cache,
                    device_count, ti, clock, ticks >>
    /\ UNCHANGED upVars
    /\ UNCHANGED auxVars

\* mutant of mandatory_devices: the phone entry is missing
mandatory_devices_nophone == << << "DESKTOP", 1, 1 >>, << "KEYBOARD", 1, 1 >>,
                                << "MOUSE", 1, 1 >>, << "MONITOR", 1, 2 >> >>

\* lines 736-742: type, min, max
mandatory_devices == << << "DESKTOP", 1, 1 >>, << "KEYBOARD", 1, 1 >>, << "MOUSE", 1, 1 >>,
                        << "PHONE", 1, 1 >>, << "MONITOR", 1, 2 >> >>

RECURSIVE GenerateDevices(_, _, _, _, _, _, _, _, _, _)
\* n calls of generate_device with consecutive ids (lines 754-766); the call for the
\* device id bad raises, if bad is one of the ids
GenerateDevices(n, devs, cache, first_id, emp_id, is_manager, device_type, model, clk, bad) ==
    IF n = 0 THEN [ devices |-> devs, cache |-> cache ]
    ELSE LET r == generate_device(devs, cache, first_id, emp_id, is_manager,
                                  device_type, model, clk, first_id = bad)
         IN  GenerateDevices(n - 1, r.devices, r.cache, first_id + 1, emp_id, is_manager,
                             device_type, model, clk, bad)

\* lines 746 and 755: the target is reached
TargetReached(count) == count >= num_devices

\* lines 734-766: one entry of mandatory_devices for one employee
MandatoryEntry ==
    /\ gpc = "mandatory"
    /\ ei <= Len(employees)
    /\ IF TargetReached(device_count)
       THEN /\ ei' = ei + 1
            /\ ti' = 1
            /\ UNCHANGED << devices, serial_cache, device_count, failures, outcome >>
       ELSE \E model \in ModelChoices(mandatory_devices[ti][1]),
               count \in mandatory_devices[ti][2] .. mandatory_devices[ti][3] :
               LET room == num_devices - device_count
                   n    == IF count < room THEN count ELSE room
                   ids  == (device_count + 1) .. (device_count + n)
               IN  \E bad \in (IF CanFail THEN ids ELSE {}) \cup { 0 } :
                      LET r == GenerateDevices(n, devices, serial_cache, device_count + 1,
                                               employees[ei].empID, employees[ei].is_manager,
                                               mandatory_devices[ti][1], model, clock, bad)
                      IN  /\ devices' = r.devices
                          /\ serial_cache' = r.cache
                          /\ device_count' = device_count + n
                          /\ failures' = IF bad = 0 THEN failures
                                         ELSE failures \cup { << "device", bad >> }
                          /\ outcome' = IF bad = device_count + n THEN "None" ELSE "device"
                          /\ IF ti < Len(mandatory_devices)
                             THEN ti' = ti + 1 /\ ei' = ei
                             ELSE ti' = 1 /\ ei' = ei + 1
    /\ UNCHANGED << pipeline, num_employees, num_devices, gpc, employees, used_tns,
                    clock, ticks >>
    /\ UNCHANGED upVars
    /\ UNCHANGED auxVars

\* line 769
manager_employees == SelectSeq(employees, LAMBDA e : e.is_manager)

\* lines 768-770: after the last employee, on to the managers' extras
MandatoryDone ==
    /\ gpc = "mandatory"
    /\ ei > Len(employees)
    /\ gpc' = "extras"
    /\ ei' = 1
    /\ ti' = 1
    /\ UNCHANGED << pipeline, num_employees, num_devices, employees, used_tns, devices,
                    serial_cache, device_count, clock, ticks, failures, outcome >>
    /\ UNCHANGED upVars
    /\ UNCHANGED auxVars

\* lines 772-776
extra_devices == << "LAPTOP", "TABLET", "MONITOR" >>

\* lines 778-798: one entry of extra_devices for one manager
ExtraEntry ==
    /\ gpc = "extras"
    /\ ei <= Len(manager_employees)
    /\ ~TargetReached(device_count)
    /\ \E wanted \in BOOLEAN, model \in ModelChoices(extra_devices[ti]),
          raises \in { FALSE, CanFail } :
          LET r == generate_device(devices, serial_cache, device_count + 1,
                                   manager_employees[ei].empID, TRUE,
                                   extra_devices[ti], model, clock, raises)
              count == IF wanted THEN device_count + 1 ELSE device_count
          IN  /\ wanted \/ ~raises
              /\ devices' = IF wanted THEN r.devices ELSE devices
              /\ serial_cache' = IF wanted THEN r.cache ELSE serial_cache
              /\ device_count' = count
              /\ failures' = IF raises THEN failures \cup { << "device", device_count + 1 >> }
                             ELSE failures
              /\ outcome' = IF wanted THEN r.result ELSE outcome
              /\ IF ti < Len(extra_devices) /\ ~TargetReached(count)
                 THEN ti' = ti + 1 /\ ei' = ei
                 ELSE ti' = 1 /\ ei' = ei + 1
    /\ UNCHANGED << pipeline, num_employees, num_devices, gpc, employees, used_tns,
                    clock, ticks >>
    /\ UNCHANGED upVars
    /\ UNCHANGED auxVars

\* lines 770, 779 and 800-802: no manager is left or the target is reached
ExtrasDone ==
    /\ gpc = "extras"
    /\ ei > Len(manager_employees) \/ TargetReached(device_count)
    /\ gpc' = "fill"
    /\ ei' = 1
    /\ ti' = 1
    /\ UNCHANGED << pipeline, num_employees, num_devices, employees, used_tns, devices,
                    serial_cache, device_count, clock, ticks, failures, outcome >>
    /\ UNCHANGED upVars
    /\ UNCHANGED auxVars

\* lines 806-814: every type has a positive weight
device_weights == << "DESKTOP", "LAPTOP", "MONITOR", "PHONE", "TABLET", "KEYBOARD", "MOUSE" >>

\* lines 816-843: one extra device for a random employee; random.choice raises
\* IndexError on an empty employee list, which generate_all_data does not catch
FillDevice ==
    /\ gpc = "fill"
    /\ ~TargetReached(device_count)
    /\ IF employees = << >>
       THEN /\ gpc' = "raised"
            /\ UNCHANGED << devices, serial_cache, device_count, failures, outcome >>
       ELSE \E t \in 1..Len(device_weights), e \in 1..Len(employees) :
            \E model \in ModelChoices(device_weights[t]), raises \in { FALSE, CanFail } :
               LET r == generate_device(devices, serial_cache, device_count + 1,
                                        employees[e].empID, employees[e].is_manager,
                                        device_weights[t], model, clock, raises)
               IN  /\ devices' = r.devices
                   /\ serial_cache' = r.cache
                   /\ device_count' = device_count + 1
                   /\ failures' = IF raises
                                  THEN failures \cup { << "device", device_count + 1 >> }
                                  ELSE failures
                   /\ outcome' = r.result
                   /\ gpc' = gpc
    /\ UNCHANGED << pipeline, num_employees, num_devices, employees, used_tns, ei, ti,
                    clock, ticks >>
    /\ UNCHANGED upVars
    /\ UNCHANGED auxVars

\* lines 845-872: the dataset is returned
FillDone ==
    /\ gpc = "fill"
    /\ TargetReached(device_count)
    /\ gpc' = "done"
    /\ UNCHANGED << pipeline, num_employees, num_devices, employees, used_tns, devices,
                    serial_cache, device_count, ei, ti, clock, ticks, failures, outcome >>
    /\ UNCHANGED upVars
    /\ UNCHANGED auxVars

\* the month changes while the devices are made (datetime.now(), line 532)
Tick ==
    /\ gpc \in { "mandatory", "extras", "fill" }
    /\ ticks < MaxTicks
    /\ clock' = clock + 1
    /\ ticks' = ticks + 1
    /\ UNCHANGED << pipeline, num_employees, num_devices, gpc, employees, used_tns, devices,
                    serial_cache, device_count, ei, ti, failures, outcome >>
    /\ UNCHANGED upVars
    /\ UNCHANGED auxVars

(***************************************************************************)
(* The division hierarchy (generate_divisions, lines 226-279) and the       *)
(* division-assignment pass (DataGenerator.assign_divisions, lines          *)
(* 682-702).  A name is the sequence of the whitespace-separated words of   *)
(* the formatted string; numbers are formatted with str().                  *)
(***************************************************************************)
\* lines 232-237
centers == << "Retail", "Corporate", "Investment", "Treasury" >>

\* range(1, 4): divisions under each division of the level above (lines 249, 260, 271)
PER_PARENT == 3

\* an optional id: None is the empty sequence, the id n is << n >>
None == << >>

Some(n) == << n >>

\* lines 239-245
center_divisions ==
    [ i \in 1..Len(centers) |->
        [ id |-> i, name |-> << "Center", centers[i] >>, level |-> 0, parent_id |-> None ] ]

\* one loop nest of lines 248-277: for every parent id in turn and j = 1..3 a division
\* with id len(divisions) + 1 is appended; the k-th division appended by the nest is
\* the ((k - 1) % 3 + 1)-th of parent (k - 1) \div 3 + 1
add_level(divs, parents, level, word) ==
    divs \o [ k \in 1..(Len(parents) * PER_PARENT) |->
                [ id |-> Len(divs) + k,
                  name |-> << word, Decimal(((k - 1) % PER_PARENT) + 1),
                              Decimal(parents[((k - 1) \div PER_PARENT) + 1]) >>,
                  level |-> level,
                  parent_id |-> Some(parents[((k - 1) \div PER_PARENT) + 1]) ] ]

\* line 248: center_id
center_ids == [ k \in 1..Len(centers) |-> k ]

\* management_ids counted from one too far
management_ids_shifted ==
    [ k \in 1..(Len(centers) * PER_PARENT) |-> Len(centers) + (k - 1) + 2 ]

\* line 259: management_id = len(centers) + i + 1 for i in range(len(centers) * 3)
management_ids == [ k \in 1..(Len(centers) * PER_PARENT) |-> Len(centers) + (k - 1) + 1 ]

\* mutant of department_ids: the departments are counted from the first management on
department_ids_low ==
    [ k \in 1..(Len(centers) * PER_PARENT * PER_PARENT) |-> Len(centers) + (k - 1) + 1 ]

\* line 270: department_id = len(centers) * 4 + i + 1 for i in range(len(centers) * 3 * 3)
department_ids ==
    [ k \in 1..(Len(centers) * PER_PARENT * PER_PARENT) |->
        Len(centers) * (PER_PARENT + 1) + (k - 1) + 1 ]

\* generate_divisions (lines 226-279)
generate_divisions ==
    LET managements == add_level(center_divisions, center_ids, 1, "Management")
        departments == add_level(managements, management_ids, 2, "Department")
    IN  add_level(departments, department_ids, 3, "Sector")

\* lines 685-690: the divisions of one level, in list order
level_groups(divs, level) == SelectSeq(divs, LAMBDA d : d.level = level)

\* lines 695-698: every level has a positive weight
Levels == 0..3

\* the employees the employee loop has made when assign_divisions is called
Population(n) ==
    [ i \in 1..n |-> [ empID |-> i, tn |-> Fmt(i, TN_WIDTH), is_manager |-> i % 2 = 1 ] ]

DivInit ==
    /\ pipeline = "generate_all_data"
    /\ \E n \in 0..MaxEmployees :
          /\ num_employees = n
          /\ employees = Population(n)
          /\ used_tns = { Fmt(i, TN_WIDTH) : i \in 1..n }
          /\ division = [ i \in 1..n |-> "" ]
    /\ num_devices = 0
    /\ gpc = "group"
    /\ devices = << >>
    /\ serial_cache = << >>
    /\ device_count = 0
    /\ ei = 1
    /\ ti = 1
    /\ clock = ClockStart
    /\ ticks = 0
    /\ failures = {}
    /\ outcome = "none"

\* lines 685-690: assign_divisions groups the divisions it was handed by level
GroupLevels ==
    /\ gpc = "group"
    /\ gpc' = "assign"
    /\ UNCHANGED << pipeline, num_employees, num_devices, employees, used_tns, devices,
                    serial_cache, device_count, ei, ti, clock, ticks, failures, outcome >>
    /\ UNCHANGED << divVars, upVars, txtVars, allocVars, runVars, fnVars >>

\* lines 693-702: one employee of the pass
AssignDivision ==
    /\ gpc = "assign"
    /\ ei <= Len(employees)
    /\ \E level \in Levels :
          \E d \in Range(level_groups(generate_divisions, level)) :
             division' = [ division EXCEPT ![ei] = d.name ]
    /\ ei' = ei + 1
    /\ UNCHANGED << pipeline, num_employees, num_devices, gpc, employees, used_tns, devices,
                    serial_cache, device_count, ti, clock, ticks, failures, outcome >>
    /\ UNCHANGED << upVars, txtVars, allocVars, runVars, fnVars >>

\* line 727: assign_divisions has returned
AssignDone ==
    /\ gpc = "assign"
    /\ ei > Len(employees)
    /\ gpc' = "assigned"
    /\ UNCHANGED << pipeline, num_employees, num_devices, employees, used_tns, devices,
                    serial_cache, device_count, ei, ti, clock, ticks, failures, outcome >>
    /\ UNCHANGED << divVars, upVars, txtVars, allocVars, runVars, fnVars >>

(***************************************************************************)
(* The name adapter: DataGenerator._generate_fio (lines 463-488) and        *)
(* DataGenerator._generate_fios_batch (lines 610-647).  A string is the     *)
(* sequence of its whitespace-separated tokens; the service's answer is a   *)
(* sequence of lines.                                                       *)
(***************************************************************************)
\* adapter calls of one run, names asked for in one batch, lines of one answer
MaxCalls == 2

MaxCount == 2

MaxLines == 2

\* the most tokens a line of an answer has
MaxTokens == 4

\* lines 470-482: the name-part tables (their first entries); every entry is one token
first_names == { << "Aleksandr" >>, << "Dmitrij" >> }

last_names == { << "Ivanov" >>, << "Petrov" >> }

middle_names == { << "Aleksandrovich" >> }

\* mutant of fio: the patronymic is left out
fio_short(last, first, middle) == last \o first

\* line 484: f"{last} {first} {middle}"
fio(last, first, middle) == last \o first \o middle

\* the names _generate_fio (and _generate_fallback_fio, lines 486-488) can return
FioNames == { fio(l, f, m) : l \in last_names, f \in first_names, m \in middle_names }

\* a line of k tokens
Line(k) == [ i \in 1..k |-> "w" ]

\* what client.chat.completions.create can do (lines 621-630): raise, or answer with
\* some lines of text of any shape, blank lines included
Answers ==
    { [ ok |-> TRUE, lines |-> ls ] :
        ls \in UNION { [ 1..n -> { Line(k) : k \in 0..MaxTokens } ] : n \in 0..MaxLines } }

NoAnswer == [ ok |-> FALSE, lines |-> << >> ]

\* line 634: the stripped non-blank lines of the answer
NonBlank(lines) == SelectSeq(lines, LAMBDA l : l # << >>)

\* _generate_fios_batch (lines 610-647) on the cache, for a given answer of the
\* service and the names the fallback generator would give
generate_fios_batch(is_set, cache, count, answer, fallback) ==
    IF answer.ok
    THEN \* lines 632-641
         [ is_set |-> TRUE,
           cache |-> (IF is_set THEN cache ELSE << >>) \o NonBlank(answer.lines),
           added |-> NonBlank(answer.lines),
           source |-> "api", requests |-> 1, raised |-> FALSE ]
    ELSE \* lines 643-647
         IF ~is_set \/ cache = << >>
         THEN [ is_set |-> TRUE, cache |-> SubSeq(fallback, 1, count),
                added |-> << >>, source |-> "fallback", requests |-> 1, raised |-> FALSE ]
         ELSE [ is_set |-> is_set, cache |-> cache,
                added |-> << >>, source |-> "none", requests |-> 1, raised |-> FALSE ]

TxtInit ==
    /\ service_up \in BOOLEAN
    /\ fio_cache_set = FALSE
    /\ fio_cache = << >>
    /\ tpc = "ready"
    /\ calls = 0
    /\ requests = 0
    /\ response = NoAnswer
    /\ api_added = << >>
    /\ source = "none"
    /\ handed = << >>

\* one call of _generate_fios_batch(count)
GenerateFiosBatch ==
    /\ tpc # "raised"
    /\ calls < MaxCalls
    /\ \E count \in 1..MaxCount,
          answer \in (IF service_up THEN Answers ELSE {}) \cup { NoAnswer },
          fallback \in [ 1..MaxCount -> FioNames ] :
          LET r == generate_fios_batch(fio_cache_set, fio_cache, count, answer, fallback)
          IN  /\ fio_cache_set' = r.is_set
              /\ fio_cache' = r.cache
              /\ api_added' = r.added
              /\ source' = r.source
              /\ requests' = r.requests
              /\ response' = answer
              /\ tpc' = IF r.raised THEN "raised" ELSE "returned"
    /\ calls' = calls + 1
    /\ UNCHANGED << service_up, handed >>
    /\ UNCHANGED << upVars, genVars, divVars, allocVars, runVars, fnVars >>

\* one call of _generate_fio()
GenerateFio ==
    /\ tpc # "raised"
    /\ calls < MaxCalls
    /\ handed' \in FioNames
    /\ calls' = calls + 1
    /\ UNCHANGED << service_up, fio_cache_set, fio_cache, tpc, requests, response,
                    api_added, source >>
    /\ UNCHANGED << upVars, genVars, divVars, allocVars, runVars, fnVars >>

(***************************************************************************)
(* The two allocation loops taken one iteration at a time: the staff        *)
(* number loop of DataGenerator.generate_employee (lines 318-322) and the   *)
(* serial number loop of DataGenerator._generate_serial_number (lines       *)
(* 530-550).  random.randint(1, 99999999) draws from a keyspace of          *)
(* KeyspaceSize staff numbers here, so that a run can use all of them up.   *)
(***************************************************************************)
KeyspaceSize == 3

\* how far the serial counter of the model is let to run
MaxSerials == 3

Keyspace == TN_LOW .. (TN_LOW + KeyspaceSize - 1)

\* the model whose serial numbers are allocated
AllocModel == Head(DEVICE_MODELS["KEYBOARD"])

AllocInit ==
    /\ pipeline = "none"
    /\ num_employees = 0
    /\ num_devices = 0
    /\ gpc = "allocator"
    /\ employees = << >>
    /\ used_tns = {}
    /\ devices = << >>
    /\ serial_cache = << >>
    /\ device_count = 0
    /\ ei = 1
    /\ ti = 1
    /\ clock = ClockStart
    /\ ticks = 0
    /\ failures = {}
    /\ outcome = "none"
    /\ tn_drawn = << >>

\* generate_employee reaches line 318
EnterTnLoop ==
    /\ gpc = "allocator"
    /\ gpc' = "tn_loop"
    /\ UNCHANGED << pipeline, num_employees, num_devices, employees, used_tns, devices,
                    serial_cache, device_count, ei, ti, clock, ticks, failures, outcome >>
    /\ UNCHANGED << upVars, divVars, txtVars, allocVars, runVars, fnVars >>

\* lines 319-322: one iteration that draws n; the loop is left only by the break
DrawTn(n) ==
    /\ gpc = "tn_loop"
    /\ tn_drawn' = Fmt(n, TN_WIDTH)
    /\ IF TnAccepted(Fmt(n, TN_WIDTH), used_tns)
       THEN /\ used_tns' = used_tns \cup { Fmt(n, TN_WIDTH) }
            /\ gpc' = "allocator"
       ELSE UNCHANGED << used_tns, gpc >>
    /\ UNCHANGED << pipeline, num_employees, num_devices, employees, devices,
                    serial_cache, device_count, ei, ti, clock, ticks, failures, outcome >>
    /\ UNCHANGED << upVars, divVars, txtVars, runVars, fnVars >>

TnIteration == \E n \in Keyspace : DrawTn(n)

\* an iteration that draws a staff number not issued before
FreshTnIteration == \E n \in Keyspace : DrawTn(n) /\ gpc' = "allocator"

\* lines 496-527: _generate_serial_number is entered, the model's entry made if missing
EnterSerialLoop ==
    /\ gpc = "allocator"
    /\ IF CacheKey(AllocModel) \in DOMAIN serial_cache
       THEN /\ serial_cache[CacheKey(AllocModel)].counter < MaxSerials
            /\ UNCHANGED serial_cache
       ELSE serial_cache' = (CacheKey(AllocModel) :>
                               [ prefix |-> PrefixOf(AllocModel), counter |-> 0, used |-> {} ])
                            @@ serial_cache
    /\ gpc' = "sn_loop"
    /\ UNCHANGED << pipeline, num_employees, num_devices, employees, used_tns, devices,
                    device_count, ei, ti, clock, ticks, failures, outcome >>
    /\ UNCHANGED << upVars, divVars, txtVars, allocVars, runVars, fnVars >>

\* lines 530-550: one iteration; the loop is left only by the return
SerialIteration ==
    /\ gpc = "sn_loop"
    /\ LET entry   == serial_cache[CacheKey(AllocModel)]
           counter == NextCounter(entry.counter)
           serial  == SerialOf(entry.prefix, clock, counter)
       IN  IF serial \notin entry.used
           THEN /\ serial_cache' = [ serial_cache EXCEPT ![CacheKey(AllocModel)] =
                                       [ prefix |-> entry.prefix, counter |-> counter,
                                         used |-> entry.used \cup { serial } ] ]
                /\ gpc' = "allocator"
           ELSE /\ serial_cache' = [ serial_cache EXCEPT
                                       ![CacheKey(AllocModel)].counter = counter ]
                /\ gpc' = gpc
    /\ UNCHANGED << pipeline, num_employees, num_devices, employees, used_tns, devices,
                    device_count, ei, ti, clock, ticks, failures, outcome >>
    /\ UNCHANGED << upVars, divVars, txtVars, allocVars, runVars, fnVars >>

\* the month changes between two allocations
AllocTick ==
    /\ gpc = "allocator"
    /\ ticks < MaxTicks
    /\ clock' = clock + 1
    /\ ticks' = ticks + 1
    /\ UNCHANGED << pipeline, num_employees, num_devices, gpc, employees, used_tns, devices,
                    serial_cache, device_count, ei, ti, failures, outcome >>
    /\ UNCHANGED << upVars, divVars, txtVars, allocVars, runVars, fnVars >>

(***************************************************************************)
(* The program run as a script (the __main__ block at lines 1480-1568):    *)
(* main(), generate_data() and generate_reference_data().  Entities are    *)
(* counted here; their content is in the generator model above.            *)
(***************************************************************************)
MaxProcessRuns == 2

MaxRunEmployees == 2

MaxRunDevices == 2

MaxJsonInt == 6

\* lines 1034-1059: the built-in reference data
builtin_data ==
    [ cities    |-> << "Moscow", "Saint Petersburg", "Novosibirsk", "Yekaterinburg",
                       "Kazan", "Nizhny Novgorod", "Chelyabinsk", "Samara", "Omsk",
                       "Rostov-on-Don", "Ufa", "Krasnoyarsk", "Perm", "Voronezh",
                       "Volgograd" >>,
      divisions |-> << [ name |-> "Retail business center", level |-> 3, parent |-> None ],
                       [ name |-> "Lending management", level |-> 2, parent |-> Some(0) ],
                       [ name |-> "Mortgage department", level |-> 1, parent |-> Some(1) ],
                       [ name |-> "Underwriting sector", level |-> 0, parent |-> Some(2) ],
                       [ name |-> "Corporate business center", level |-> 3,
                         parent |-> None ],
                       [ name |-> "Cash services management", level |-> 2,
                         parent |-> Some(4) ],
                       [ name |-> "Currency control department", level |-> 1,
                         parent |-> Some(5) ] >>,
      positions |-> << [ name |-> "Sales manager", is_manager |-> FALSE ],
                       [ name |-> "Senior manager", is_manager |-> FALSE ],
                       [ name |-> "Lead specialist", is_manager |-> FALSE ],
                       [ name |-> "Head of department", is_manager |-> TRUE ],
                       [ name |-> "Deputy head of department", is_manager |-> TRUE ],
                       [ name |-> "Department director", is_manager |-> TRUE ],
                       [ name |-> "Head of direction", is_manager |-> TRUE ],
                       [ name |-> "Specialist", is_manager |-> FALSE ] >> ]

\* lines 1069-1076: the data returned when anything in the function raised
minimal_data ==
    [ cities    |-> << "Moscow", "Saint Petersburg", "Novosibirsk" >>,
      divisions |-> << [ name |-> "Head office", level |-> 3, parent |-> None ] >>,
      positions |-> << [ name |-> "Specialist", is_manager |-> FALSE ],
                       [ name |-> "Head", is_manager |-> TRUE ] >> ]

\* json.dump (line 1063) writes a string in quotes, an int in digits, None as null and
\* a bool as true or false; a text is kept as its values in document order
json_str(s) == << "str", s >>

json_num(n) == << "num", ToString(n) >>

json_null == << "null" >>

json_bool(b) == IF b THEN << "true" >> ELSE << "false" >>

json_dumps(value) ==
    [ ok        |-> TRUE,
      cities    |-> [ i \in 1..Len(value.cities) |-> json_str(value.cities[i]) ],
      divisions |-> [ i \in 1..Len(value.divisions) |->
                        [ name   |-> json_str(value.divisions[i].name),
                          level  |-> json_num(value.divisions[i].level),
                          parent |-> IF value.divisions[i].parent = None
                                     THEN json_null
                                     ELSE json_num(value.divisions[i].parent[1]) ] ],
      positions |-> [ i \in 1..Len(value.positions) |->
                        [ name       |-> json_str(value.positions[i].name),
                          is_manager |-> json_bool(value.positions[i].is_manager) ] ] ]

\* json.load (line 1031) reads the values back
json_int(digits) == CHOOSE n \in 0..MaxJsonInt : ToString(n) = digits

json_value(token) ==
    IF token[1] = "null" THEN None ELSE Some(json_int(token[2]))

json_loads(text) ==
    [ cities    |-> [ i \in 1..Len(text.cities) |-> text.cities[i][2] ],
      divisions |-> [ i \in 1..Len(text.divisions) |->
                        [ name   |-> text.divisions[i].name[2],
                          level  |-> json_int(text.divisions[i].level[2]),
                          parent |-> json_value(text.divisions[i].parent) ] ],
      positions |-> [ i \in 1..Len(text.positions) |->
                        [ name       |-> text.positions[i].name[2],
                          is_manager |-> text.positions[i].is_manager[1] = "true" ] ] ]

\* a file json.load cannot read (it raises JSONDecodeError)
Corrupt == [ ok |-> FALSE, cities |-> << >>, divisions |-> << >>, positions |-> << >> ]

\* what opening the cache for writing and json.dump can do (lines 1062-1063): write the
\* text, fail before the file exists, or fail after the file was truncated
WriteOutcomes == { "written", "denied", "truncated" }

\* generate_reference_data with the snapshot ignored
generate_reference_data_regen(file, write) ==
    IF write = "written"
    THEN [ file |-> << json_dumps(builtin_data) >>, data |-> builtin_data,
           built |-> TRUE, raised |-> FALSE ]
    ELSE [ file |-> IF write = "denied" THEN file ELSE << Corrupt >>,
           data |-> minimal_data, built |-> TRUE, raised |-> TRUE ]

\* lines 1025-1077: the file after the call, the value returned, whether the built-in
\* data was put together, and whether the handler at line 1067 ran
generate_reference_data(file, write) ==
    IF file # << >>
    THEN IF file[1].ok
         THEN [ file |-> file, data |-> json_loads(file[1]),
                built |-> FALSE, raised |-> FALSE ]
         ELSE [ file |-> file, data |-> minimal_data,
                built |-> FALSE, raised |-> TRUE ]
    ELSE IF write = "written"
         THEN [ file |-> << json_dumps(builtin_data) >>, data |-> builtin_data,
                built |-> TRUE, raised |-> FALSE ]
         ELSE [ file |-> IF write = "denied" THEN << >> ELSE << Corrupt >>,
                data |-> minimal_data, built |-> TRUE, raised |-> TRUE ]

\* snapshots an earlier run or the operator may have left behind
other_data ==
    [ cities    |-> << "Tver" >>,
      divisions |-> << [ name |-> "Branch", level |-> 3, parent |-> None ],
                       [ name |-> "Desk", level |-> 2, parent |-> Some(0) ] >>,
      positions |-> << [ name |-> "Clerk", is_manager |-> FALSE ] >> ]

no_positions_data == [ other_data EXCEPT !.positions = << >> ]

InitialCacheFiles ==
    { << >>, << Corrupt >>, << json_dumps(builtin_data) >>, << json_dumps(other_data) >>,
      << json_dumps(no_positions_data) >> }

\* the statistics a run before the first one wrote (lines 1507-1514)
stale_stats ==
    [ status |-> "completed", generated_at |-> 0, employees_count |-> 0,
      devices_count |-> 0 ]

RunInit ==
    /\ rpc = "boot"
    /\ run_no = 1
    /\ handlers \in BOOLEAN
    /\ cache_file \in InitialCacheFiles
    /\ stats_file \in { << >>, << stale_stats >> }
    /\ data_file \in BOOLEAN
    /\ ref_data = << >>
    /\ ref_calls = << >>
    /\ target_employees \in 0..MaxRunEmployees
    /\ target_devices \in 0..MaxRunDevices
    /\ emp_i = 1
    /\ run_employees = 0
    /\ run_devices = 0
    /\ gd_result = "pending"
    /\ main_result = << >>
    /\ exit_code = << >>
    /\ sig = "none"
    /\ sig_phase = "none"
    /\ after_signal = 0

\* lines 1480-1552: the loop is made, the signal handlers are installed where the
\* platform has them, the old data files are removed (generation_stats.json is not
\* among them), and main() is started
ProcessStart ==
    /\ rpc = "boot"
    /\ data_file' = FALSE
    /\ rpc' = "ref"
    /\ UNCHANGED << run_no, handlers, cache_file, stats_file, ref_data, ref_calls,
                    target_employees, target_devices, emp_i, run_employees, run_devices,
                    gd_result, main_result, exit_code, sig, sig_phase, after_signal >>
    /\ UNCHANGED << upVars, genVars, divVars, txtVars, allocVars, fnVars >>

\* lines 1190-1196: generate_data calls generate_reference_data
RunReferenceData ==
    /\ rpc = "ref"
    /\ \E write \in WriteOutcomes :
          LET r == generate_reference_data(cache_file, write)
          IN  /\ cache_file' = r.file
              /\ ref_data' = << r.data >>
              /\ ref_calls' = Append(ref_calls, [ before |-> cache_file, after |-> r.file,
                                                  data |-> r.data, built |-> r.built,
                                                  raised |-> r.raised ])
    /\ rpc' = "employees"
    /\ UNCHANGED << run_no, handlers, stats_file, data_file, target_employees,
                    target_devices, emp_i, run_employees, run_devices, gd_result,
                    main_result, exit_code, sig, sig_phase, after_signal >>
    /\ UNCHANGED << upVars, genVars, divVars, txtVars, allocVars, fnVars >>

\* lines 1215-1221: one iteration of the employee loop.  generate_employee (lines
\* 1079-1115) has no handler: random.choice raises on an empty list of positions or of
\* cities, and the exception ends generate_data at lines 1373-1377
RunEmployeeIteration ==
    /\ rpc = "employees"
    /\ emp_i <= target_employees
    /\ IF ref_data[1].positions = << >> \/ ref_data[1].cities = << >>
       THEN /\ gd_result' = "None"
            /\ rpc' = "returned"
            /\ UNCHANGED << emp_i, run_employees >>
       ELSE /\ run_employees' = run_employees + 1
            /\ emp_i' = emp_i + 1
            /\ UNCHANGED << gd_result, rpc >>
    /\ after_signal' = IF sig = "none" THEN after_signal ELSE after_signal + 1
    /\ UNCHANGED << run_no, handlers, cache_file, stats_file, data_file, ref_data, ref_calls,
                    target_employees, target_devices, run_devices, main_result,
                    exit_code, sig, sig_phase >>
    /\ UNCHANGED << upVars, genVars, divVars, txtVars, allocVars, fnVars >>

\* lines 1223-1233: the loop is over, the divisions are assigned
RunEmployeesDone ==
    /\ rpc = "employees"
    /\ emp_i > target_employees
    /\ rpc' = "devices"
    /\ UNCHANGED << run_no, handlers, cache_file, stats_file, data_file, ref_data, ref_calls,
                    target_employees, target_devices, emp_i, run_employees, run_devices,
                    gd_result, main_result, exit_code, sig, sig_phase, after_signal >>
    /\ UNCHANGED << upVars, genVars, divVars, txtVars, allocVars, fnVars >>

\* lines 1236-1347: one iteration of a device loop.  Without employees only the last
\* pass runs, and its random.choice(employees) (line 1332) raises
RunDeviceIteration ==
    /\ rpc = "devices"
    /\ run_devices < target_devices
    /\ IF run_employees = 0
       THEN /\ gd_result' = "None"
            /\ rpc' = "returned"
            /\ UNCHANGED run_devices
       ELSE /\ run_devices' = run_devices + 1
            /\ UNCHANGED << gd_result, rpc >>
    /\ after_signal' = IF sig = "none" THEN after_signal ELSE after_signal + 1
    /\ UNCHANGED << run_no, handlers, cache_file, stats_file, data_file, ref_data, ref_calls,
                    target_employees, target_devices, emp_i, run_employees, main_result,
                    exit_code, sig, sig_phase >>
    /\ UNCHANGED << upVars, genVars, divVars, txtVars, allocVars, fnVars >>

\* lines 1349-1371: the result is put together and saved, generate_data returns it
RunSaveData ==
    /\ rpc = "devices"
    /\ run_devices >= target_devices
    /\ data_file' = TRUE
    /\ gd_result' = "dict"
    /\ rpc' = "returned"
    /\ UNCHANGED << run_no, handlers, cache_file, stats_file, ref_data, ref_calls,
                    target_employees, target_devices, emp_i, run_employees, run_devices,
                    main_result, exit_code, sig, sig_phase, after_signal >>
    /\ UNCHANGED << upVars, genVars, divVars, txtVars, allocVars, fnVars >>

\* lines 1493-1532: main() after generate_data returned: the statistics are written
\* only under 'if result:'; the finally clause stops the loop
MainFinish ==
    /\ rpc = "returned"
    /\ IF gd_result = "dict"
       THEN /\ stats_file' = << [ status |-> "completed", generated_at |-> run_no,
                                  employees_count |-> run_employees,
                                  devices_count |-> run_devices ] >>
            /\ main_result' = << TRUE >>
       ELSE /\ main_result' = << FALSE >>
            /\ UNCHANGED stats_file
    /\ rpc' = "stopped"
    /\ UNCHANGED << run_no, handlers, cache_file, data_file, ref_data, ref_calls,
                    target_employees, target_devices, emp_i, run_employees, run_devices,
                    gd_result, exit_code, sig, sig_phase, after_signal >>
    /\ UNCHANGED << upVars, genVars, divVars, txtVars, allocVars, fnVars >>

\* lines 1551-1568: run_until_complete returns and success is set whatever main()
\* returned, or KeyboardInterrupt is caught; the loop is closed, with it the signal
\* callbacks that never ran
ProcessExit ==
    /\ rpc \in { "stopped", "interrupted" }
    /\ exit_code' = IF rpc = "stopped" THEN << 0 >> ELSE << 1 >>
    /\ rpc' = "exited"
    /\ UNCHANGED << run_no, handlers, cache_file, stats_file, data_file, ref_data, ref_calls,
                    target_employees, target_devices, emp_i, run_employees, run_devices,
                    gd_result, main_result, sig, sig_phase, after_signal >>
    /\ UNCHANGED << upVars, genVars, divVars, txtVars, allocVars, fnVars >>

\* SIGINT or SIGTERM is delivered while the task of main() runs.  With the handlers of
\* lines 1535-1540 the loop only notes the signal: the callback that starts shutdown
\* (lines 1469-1478) runs when the loop is given control again, and generate_data has
\* no await that gives it up and no check of its own.  Without them SIGINT raises
\* KeyboardInterrupt in the running code, which no 'except Exception' catches (line
\* 1556 does), and SIGTERM ends the process
SignalArrives ==
    /\ rpc \in { "ref", "employees", "devices", "returned" }
    /\ sig = "none"
    /\ \E s \in { "SIGINT", "SIGTERM" } :
          /\ sig' = s
          /\ rpc' = IF handlers THEN rpc
                    ELSE IF s = "SIGINT" THEN "interrupted" ELSE "killed"
    /\ sig_phase' = rpc
    /\ UNCHANGED << run_no, handlers, cache_file, stats_file, data_file, ref_data, ref_calls,
                    target_employees, target_devices, emp_i, run_employees, run_devices,
                    gd_result, main_result, exit_code, after_signal >>
    /\ UNCHANGED << upVars, genVars, divVars, txtVars, allocVars, fnVars >>

\* the program is started again; the files stay
ProcessRestart ==
    /\ rpc \in { "exited", "killed" }
    /\ run_no < MaxProcessRuns
    /\ run_no' = run_no + 1
    /\ rpc' = "boot"
    /\ ref_data' = << >>
    /\ emp_i' = 1
    /\ run_employees' = 0
    /\ run_devices' = 0
    /\ gd_result' = "pending"
    /\ main_result' = << >>
    /\ exit_code' = << >>
    /\ sig' = "none"
    /\ sig_phase' = "none"
    /\ after_signal' = 0
    /\ UNCHANGED << handlers, cache_file, stats_file, data_file, ref_calls,
                    target_employees, target_devices >>
    /\ UNCHANGED << upVars, genVars, divVars, txtVars, allocVars, fnVars >>

RunIdle ==
    /\ rpc = "idle"
    /\ run_no = 0
    /\ handlers = FALSE
    /\ cache_file = << >>
    /\ stats_file = << >>
    /\ data_file = FALSE
    /\ ref_data = << >>
    /\ ref_calls = << >>
    /\ target_employees = 0
    /\ target_devices = 0
    /\ emp_i = 0
    /\ run_employees = 0
    /\ run_devices = 0
    /\ gd_result = "pending"
    /\ main_result = << >>
    /\ exit_code = << >>
    /\ sig = "none"
    /\ sig_phase = "none"
    /\ after_signal = 0

RunNext ==
    \/ ProcessStart
    \/ RunReferenceData
    \/ RunEmployeeIteration
    \/ RunEmployeesDone
    \/ RunDeviceIteration
    \/ RunSaveData
    \/ MainFinish
    \/ ProcessExit
    \/ SignalArrives
    \/ ProcessRestart

(***************************************************************************)
(* DataGenerator._calculate_ctc (lines 552-587), which generate_device     *)
(* calls at line 415 with the date it has just formatted (line 400).       *)
(***************************************************************************)
\* the day the generator runs
Today == << 2025, 6, 15 >>

\* the ages in days generate_device is let to draw from random.randint(1, 3650)
Ages == { 1, 179, 180, 200, 364, 365, 366, 729, 730, 1000, 1095, 1096, 1459, 1460, 3650 }

\* datetime: the day number of a date of the Gregorian calendar, and the date of a day
\* number
days_from_civil(date) ==
    LET y   == IF date[2] <= 2 THEN date[1] - 1 ELSE date[1]
        era == y \div 400
        yoe == y - era * 400
        mp  == IF date[2] > 2 THEN date[2] - 3 ELSE date[2] + 9
        doy == (153 * mp + 2) \div 5 + date[3] - 1
        doe == yoe * 365 + yoe \div 4 - yoe \div 100 + doy
    IN  era * 146097 + doe - 719468

civil_from_days(days) ==
    LET z   == days + 719468
        era == z \div 146097
        doe == z - era * 146097
        yoe == (doe - doe \div 1460 + doe \div 36524 - doe \div 146096) \div 365
        doy == doe - (365 * yoe + yoe \div 4 - yoe \div 100)
        mp  == (5 * doy + 2) \div 153
        d   == doy - (153 * mp + 2) \div 5 + 1
        m   == IF mp < 10 THEN mp + 3 ELSE mp - 9
        y   == yoe + era * 400
    IN  << IF m <= 2 THEN y + 1 ELSE y, m, d >>

\* line 400: the date age days before today, as strftime writes and strptime reads it
ReceiptDate(age) == civil_from_days(days_from_civil(Today) - age)

\* line 564
age_days(date) == days_from_civil(Today) - days_from_civil(date)

\* lines 670-672 of _generate_ctc, which nothing calls: the age in calendar months
months_since_receipt(date) == (Today[1] - date[1]) * 12 + (Today[2] - date[2])

\* lines 675-680 of _generate_ctc: the range it draws from
generate_ctc_range(months) ==
    IF months <= 12 THEN 80..100
    ELSE IF months <= 36 THEN 50..90
    ELSE 10..60

\* lines 567-576: the range base_ctc is drawn from
base_range(age) ==
    IF age < 180 THEN 80..100
    ELSE IF age < 365 THEN 70..95
    ELSE IF age < 730 THEN 60..85
    ELSE IF age < 1460 THEN 40..70
    ELSE 20..50

\* line 579
Deviation == -5..5

\* line 582 without the limits
clamp_none(n) == n

\* line 582
clamp(n) == IF n < 1 THEN 1 ELSE IF n > 100 THEN 100 ELSE n

\* line 587: the value returned when anything in the try block raised
ErrorRange == 40..80

CtcInit ==
    /\ cpc = "call"
    /\ date_receipt \in { ReceiptDate(a) : a \in Ages } \cup { << >> }
    /\ base_ctc = 0
    /\ jitter = 0
    /\ ctc = 0

\* lines 552-587, one call
CalculateCtc ==
    /\ cpc = "call"
    /\ IF date_receipt = << >>
       THEN /\ ctc' \in ErrorRange
            /\ UNCHANGED << base_ctc, jitter >>
       ELSE /\ base_ctc' \in base_range(age_days(date_receipt))
            /\ jitter' \in Deviation
            /\ ctc' = clamp(base_ctc' + jitter')
    /\ cpc' = "returned"
    /\ UNCHANGED date_receipt
    /\ UNCHANGED cityVars
    /\ UNCHANGED << upVars, genVars, divVars, txtVars, allocVars, runVars >>

CtcIdle ==
    /\ cpc = "idle"
    /\ date_receipt = << >>
    /\ base_ctc = 0
    /\ jitter = 0
    /\ ctc = 0

(***************************************************************************)
(* DataGenerator._select_city (lines 589-608) as generate_employee calls   *)
(* it (lines 324-328): the location of each new employee.                  *)
(***************************************************************************)
\* employees whose city is chosen in a run of the model
MaxCityPicks == 3

\* the target population (NUM_EMPLOYEES, line 70), scaled
CityPopulation == 20

\* lines 94-98
CITIES == << "Moscow", "Saint Petersburg", "Novosibirsk", "Yekaterinburg", "Kazan",
             "Nizhny Novgorod", "Chelyabinsk", "Samara", "Omsk", "Rostov-on-Don",
             "Ufa", "Krasnoyarsk", "Voronezh", "Perm", "Volgograd" >>

\* lines 592-595: (city, 100 - i) for i, city in enumerate(CITIES)
city_weights == [ i \in 1..Len(CITIES) |-> 100 - (i - 1) ]

\* lines 598-606: random.choices can return every city of positive weight; nothing
\* else enters the choice
select_city == { CITIES[i] : i \in { j \in 1..Len(CITIES) : city_weights[j] > 0 } }

CityInit == locations = << >>

\* lines 324-346: generate_employee chooses the city and appends the employee
SelectCity ==
    /\ Len(locations) < MaxCityPicks
    /\ \E city \in select_city : locations' = Append(locations, city)
    /\ UNCHANGED ctcVars
    /\ UNCHANGED << upVars, genVars, divVars, txtVars, allocVars, runVars >>

CityIdle == locations = << >>

FnIdle == CtcIdle /\ CityIdle

(***************************************************************************)
(* FirebaseUploader used through its two batch methods alone: any caller,  *)
(* any order of add_to_batch (lines 143-152) and commit_batch (lines       *)
(* 154-164) calls.  Both re-raise a failed commit (line 164) and leave the *)
(* uploader as it was at the raise; what the caller does next is its own.  *)
(***************************************************************************)
\* add_to_batch calls of one caller
MaxCallOps == 6

\* the documents the caller writes
CallDocs == { << "employees", 1 >>, << "employees", 2 >> }

CallsInit ==
    /\ store = NoStore
    /\ data = [ reference_data |-> FALSE, employees |-> << >>, devices |-> << >> ]
    /\ pc = "calls"
    /\ ci = 1
    /\ docs = << >>
    /\ deleted = 0
    /\ doc_count = 0
    /\ total_deleted = 0
    /\ dbatch = << >>
    /\ batch = << >>
    /\ operation_count = 0
    /\ total_operations = 0
    /\ wi = 1
    /\ failed = FALSE
    /\ lastCommit = << "none", 0 >>
    /\ run = 1
    /\ snapshot = NoStore

\* what a call leaves in the uploader and the store, whether it returned or raised
CallEffect(r) ==
    /\ store' = r.store
    /\ batch' = r.batch
    /\ operation_count' = r.operation_count
    /\ total_operations' = r.total_operations
    /\ lastCommit' = r.sent
    /\ failed' = r.fail
    /\ UNCHANGED << data, pc, ci, docs, deleted, doc_count, total_deleted, dbatch, wi,
                    run, snapshot >>
    /\ UNCHANGED genVars
    /\ UNCHANGED auxVars

\* lines 143-152
CallAddToBatch ==
    /\ pc = "calls"
    /\ total_operations < MaxCallOps
    /\ \E w \in CallDocs, ok \in BOOLEAN :
          CallEffect(add_to_batch(Uploader, store, lastCommit, w, ok))

\* lines 154-164
CallCommitBatch ==
    /\ pc = "calls"
    /\ \E ok \in BOOLEAN : CallEffect(commit_batch(Uploader, store, lastCommit, ok))

(***************************************************************************)
(* Specifications.                                                         *)
(***************************************************************************)
GenIdle ==
    /\ pipeline = "none"
    /\ num_employees = 0
    /\ num_devices = 0
    /\ gpc = "idle"
    /\ employees = << >>
    /\ used_tns = {}
    /\ devices = << >>
    /\ serial_cache = << >>
    /\ device_count = 0
    /\ ei = 1
    /\ ti = 1
    /\ clock = ClockStart
    /\ ticks = 0
    /\ failures = {}
    /\ outcome = "none"

UpIdle ==
    /\ store = NoStore
    /\ data = [ reference_data |-> FALSE, employees |-> << >>, devices |-> << >> ]
    /\ pc = "idle"
    /\ ci = 1
    /\ docs = << >>
    /\ deleted = 0
    /\ doc_count = 0
    /\ total_deleted = 0
    /\ dbatch = << >>
    /\ batch = << >>
    /\ operation_count = 0
    /\ total_operations = 0
    /\ wi = 1
    /\ failed = FALSE
    /\ lastCommit = << "none", 0 >>
    /\ run = 1
    /\ snapshot = NoStore

DivIdle == division = << >>

TxtIdle ==
    /\ service_up = FALSE
    /\ fio_cache_set = FALSE
    /\ fio_cache = << >>
    /\ tpc = "idle"
    /\ calls = 0
    /\ requests = 0
    /\ response = NoAnswer
    /\ api_added = << >>
    /\ source = "none"
    /\ handed = << >>

AllocIdle == tn_drawn = << >>

AuxIdle == DivIdle /\ TxtIdle /\ AllocIdle /\ RunIdle /\ FnIdle

Init == UpInit /\ GenIdle /\ AuxIdle

Spec == Init /\ [][Next]_vars

GenNext ==
    \/ GenerateEmployee
    \/ EmployeesDone
    \/ GdGenerateEmployee
    \/ MandatoryEntry
    \/ MandatoryDone
    \/ ExtraEntry
    \/ ExtrasDone
    \/ FillDevice
    \/ FillDone
    \/ Tick

InitGen == GenInit /\ UpIdle /\ AuxIdle

DivNext ==
    \/ GroupLevels
    \/ AssignDivision
    \/ AssignDone

InitDiv == DivInit /\ UpIdle /\ TxtIdle /\ AllocIdle /\ RunIdle /\ FnIdle

AllocNext ==
    \/ EnterTnLoop
    \/ TnIteration
    \/ EnterSerialLoop
    \/ SerialIteration
    \/ AllocTick

InitAlloc == AllocInit /\ UpIdle /\ DivIdle /\ TxtIdle /\ RunIdle /\ FnIdle

\* the loops keep running, and random.randint does not avoid a free staff number
\* for ever
SpecAlloc ==
    /\ InitAlloc
    /\ [][AllocNext]_vars
    /\ WF_vars(TnIteration)
    /\ WF_vars(FreshTnIteration)
    /\ WF_vars(SerialIteration)

TxtNext ==
    \/ GenerateFiosBatch
    \/ GenerateFio

InitTxt == TxtInit /\ UpIdle /\ GenIdle /\ DivIdle /\ AllocIdle /\ RunIdle /\ FnIdle

SpecTxt == InitTxt /\ [][TxtNext]_vars

SpecDiv == InitDiv /\ [][DivNext]_vars

SpecGen == InitGen /\ [][GenNext]_vars

InitRun == RunInit /\ UpIdle /\ GenIdle /\ DivIdle /\ TxtIdle /\ AllocIdle /\ FnIdle

SpecRun == InitRun /\ [][RunNext]_vars

CallsNext ==
    \/ CallAddToBatch
    \/ CallCommitBatch

InitCalls == CallsInit /\ GenIdle /\ AuxIdle

SpecCalls == InitCalls /\ [][CallsNext]_vars

CtcNext == CalculateCtc

InitCtc ==
    CtcInit /\ CityIdle /\ UpIdle /\ GenIdle /\ DivIdle /\ TxtIdle /\ AllocIdle /\ RunIdle

SpecCtc == InitCtc /\ [][CtcNext]_vars

CityNext == SelectCity

InitCity ==
    CityInit /\ CtcIdle /\ UpIdle /\ GenIdle /\ DivIdle /\ TxtIdle /\ AllocIdle /\ RunIdle

SpecCity == InitCity /\ [][CityNext]_vars

(***************************************************************************)
(* Claims about the uploader (specification Spec).                         *)
(***************************************************************************)
\* the documents a sync of the dataset is to leave in a collection
Expected(c) ==
    IF c = "employees" THEN { << i, "new" >> : i \in Range(data.employees) }
    ELSE IF c = "devices" THEN { << i, "new" >> : i \in Range(data.devices) }
    ELSE IF data.reference_data THEN { << i, "new" >> : i \in Range(RefDocs) } ELSE {}

\* C1: when delete_collection returns normally, the target collection contains no
\* documents, whatever its initial size (larger than one page included).
C1_DeleteEmptiesCollection == pc = "del_ret" => store[Cur] = {}

\* C2: after upload_data returns normally each target collection contains exactly the
\* records of the dataset just synced, and nothing of the previous snapshot.
C2_CleanReplace == pc = "done" => \A c \in Collections : store[c] = Expected(c)

\* C3: a second upload_data of the same dataset against the same store leaves the
\* store in the state the first one left it in.
C3_SecondSyncSameStore == (pc = "done" /\ run > 1) => store = snapshot

\* C4: every batch sent to the store, delete batch or write batch, holds at most
\* BATCH_SIZE operations, and add_to_batch never returns with BATCH_SIZE or more
\* operations pending: it has committed them and opened an empty batch.
C4_BatchCeiling ==
    /\ lastCommit[2] <= BATCH_SIZE
    /\ Len(dbatch) <= BATCH_SIZE
    /\ pc # "raised" => /\ operation_count < BATCH_SIZE
                        /\ Len(batch) = operation_count

\* C4 witness: add_to_batch has just flushed a full batch in the employees loop
C4_Witness ==
    /\ pc = "write_emp"
    /\ lastCommit = << "write", BATCH_SIZE >>
    /\ batch = << >>
    /\ wi > 1

\* C5: when upload_data returns normally every record of the dataset is in the store
\* and no write is left pending in an uncommitted batch, an empty employee and device
\* list included.
C5_NothingPending ==
    pc = "done" => /\ operation_count = 0
                   /\ batch = << >>
                   /\ \A c \in Collections : Expected(c) \subseteq store[c]

\* C6: once a delete or a commit has failed, upload_data issues nothing more to the
\* store: the failing step raises to the caller and no step follows it.
C6_FailFast == [][ ~failed /\ (failed' => pc' = "raised") ]_vars

\* C6 witness: a write commit failed after the deletes went through, and
\* upload_data raised
C6_Witness ==
    /\ failed
    /\ pc = "raised"
    /\ lastCommit[1] = "write"
    /\ batch # << >>

(***************************************************************************)
(* Claims about the generator (specification SpecGen).                     *)
(***************************************************************************)
IsDigits(str, w) == Len(str) = w /\ \A k \in 1..Len(str) : str[k] \in Range(DigitChars)

\* C7: no two employees of a run share a staff number, and every staff number is a
\* string of exactly 8 decimal digits, in the generate_all_data pipeline and in the
\* generate_data pipeline.
C7_StaffNumbersUnique ==
    /\ \A i, j \in 1..Len(employees) : i # j => employees[i].tn # employees[j].tn
    /\ \A i \in 1..Len(employees) : IsDigits(employees[i].tn, TN_WIDTH)

Front(str) == SubSeq(str, 1, Len(str) - 1)

\* C8: no two devices of the same model share a serial number, and the last
\* character of every serial number is (the sum of the character codes of the
\* characters before it) mod 10.
C8_SerialPerModel ==
    /\ \A i, j \in 1..Len(devices) :
          (i # j /\ devices[i].model = devices[j].model)
             => devices[i].serial_number # devices[j].serial_number
    /\ \A i \in 1..Len(devices) :
          LET sn == devices[i].serial_number
          IN  sn[Len(sn)] = DigitChar(SumOrd(Front(sn)) % 10)

\* C8 witness: the run has made two devices of one model
C8_Witness ==
    \E i, j \in 1..Len(devices) : i # j /\ devices[i].model = devices[j].model

\* C9: no two devices of a run share a serial number, whatever their models.
C9_SerialUniqueInRun ==
    \A i, j \in 1..Len(devices) :
       i # j => devices[i].serial_number # devices[j].serial_number

\* C9 as amended: serial numbers are unique among the devices of one model; two
\* devices share one only if they are of different models whose names give the
\* same manufacturer prefix.
C9_SharedOnlyAcrossModels ==
    \A i, j \in 1..Len(devices) :
       (i # j /\ devices[i].serial_number = devices[j].serial_number)
          => /\ devices[i].model # devices[j].model
             /\ PrefixOf(devices[i].model) = PrefixOf(devices[j].model)

\* C9 witness: two devices of different models have the same serial number
C9_Witness ==
    \E i, j \in 1..Len(devices) :
       /\ devices[i].model # devices[j].model
       /\ devices[i].serial_number = devices[j].serial_number

\* the mandatory set the claim names
MandatoryTypes == { "DESKTOP", "KEYBOARD", "MOUSE", "PHONE", "MONITOR" }

HasMandatorySet(e) ==
    \A t \in MandatoryTypes :
       \E i \in 1..Len(devices) : devices[i].emp_id = e.empID /\ devices[i].type = t

RECURSIVE SumMax(_)
\* the most devices the mandatory pass makes for one employee
SumMax(entries) == IF entries = << >> THEN 0 ELSE Head(entries)[3] + SumMax(Tail(entries))

\* no generate_device call of the run has returned None
NoDeviceFailed == \A f \in failures : f[1] # "device"

C11_ExactCounts ==
    (pipeline = "generate_all_data" /\ gpc = "done" /\ num_employees > 0 /\ num_devices > 0)
       => /\ Len(employees) = num_employees
          /\ Len(devices) = num_devices

(***************************************************************************)
(* Claims about the division hierarchy (specification SpecDiv).            *)
(***************************************************************************)
DivisionsNamed(name) == { k \in 1..Len(generate_divisions) : generate_divisions[k].name = name }

DivisionsWithId(id) == { k \in 1..Len(generate_divisions) : generate_divisions[k].id = id }

RECURSIVE ReachesRoot(_, _)
\* following parent_id from d ends at a root within steps steps, the level going
\* down by one at every step
ReachesRoot(d, steps) ==
    IF d.parent_id = None THEN d.level = 0
    ELSE /\ steps > 0
         /\ Cardinality(DivisionsWithId(d.parent_id[1])) = 1
         /\ LET p == generate_divisions[CHOOSE k \in DivisionsWithId(d.parent_id[1]) : TRUE]
            IN  p.level = d.level - 1 /\ ReachesRoot(p, steps - 1)

\* C12: after the division-assignment pass every employee's division is the name of
\* exactly one division of the hierarchy built by generate_divisions, and following
\* parent_id from any division reaches a root (parent_id null, level 0) in finitely
\* many steps with the level decreasing by exactly 1 at each step.  The hierarchy is
\* examined as it is handed to assign_divisions, which only reads it.
C12_DivisionsResolve ==
    /\ gpc = "assigned" =>
          \A i \in 1..Len(employees) : Cardinality(DivisionsNamed(division[i])) = 1
    /\ gpc = "group" =>
          \A k \in 1..Len(generate_divisions) :
             ReachesRoot(generate_divisions[k], Len(generate_divisions))

\* C12 witness: the pass is over; one employee is in a center and one in a sector
C12_Witness ==
    /\ gpc = "assigned"
    /\ \E i, j \in 1..Len(employees) :
          /\ Head(division[i]) = "Center"
          /\ Head(division[j]) = "Sector"

(***************************************************************************)
(* Claims about the name adapter (specification SpecTxt).                  *)
(***************************************************************************)
ThreeTokens(name) == Len(name) = 3

\* C13: if the text service fails on every request, every name handed out by the
\* adapter, by _generate_fio or from the cache filled by _generate_fios_batch, is a
\* string of exactly three whitespace-separated tokens, and no call raises.
C13_FallbackNames ==
    ~service_up =>
       /\ \A i \in 1..Len(fio_cache) : ThreeTokens(fio_cache[i])
       /\ handed # << >> => ThreeTokens(handed)
       /\ tpc # "raised"

\* C13 witness: with the service down a batch call has filled the cache from the
\* local generator, and _generate_fio has returned a name
C13_Witness ==
    /\ ~service_up
    /\ source = "fallback"
    /\ Len(fio_cache) = MaxCount
    /\ handed # << >>

\* how many of the lines split into exactly three tokens
WellFormed(lines) == Cardinality({ i \in 1..Len(lines) : ThreeTokens(lines[i]) })

\* C14: a batch of names returned by the text service is added to the name cache only
\* if at least 80% of its lines split into exactly three whitespace-separated
\* tokens; an answer below that threshold adds nothing to the cache.
C14_AcceptanceThreshold ==
    api_added # << >> =>
       5 * WellFormed(NonBlank(response.lines)) >= 4 * Len(NonBlank(response.lines))

\* C15: when a request to the text service fails, the adapter re-issues it, and it
\* fills the cache from the local name generator only after all attempts have
\* failed: a call that fell back has sent more than one request.
C15_RetriesBeforeFallback == source = "fallback" => requests > 1

(***************************************************************************)
(* Claims about the allocation loops (specification SpecAlloc).            *)
(***************************************************************************)
\* C16: allocating a staff number or a serial number always terminates: a loop that
\* has been entered is left, also when every code of the keyspace has already been
\* issued.
C16_AllocationTerminates == (gpc \in { "tn_loop", "sn_loop" }) ~> (gpc = "allocator")

(***************************************************************************)
(* Claims about failures and the process (specifications SpecGen, SpecRun).*)
(***************************************************************************)
\* C17: a failure while generating a single employee or a single device never aborts
\* the run: the failing call returns a stub employee or None without raising, and the
\* run goes on to the next entity and is not ended by an exception.
C17_FailureDoesNotAbort ==
    failures # {} =>
       /\ outcome # "raised"
       /\ gpc \notin { "raised", "gd_failed" }

\* C18: in every terminal state of the process, whether generate_data succeeded or
\* failed, data/generation_stats.json has been written by this run.
C18_StatsWrittenAtExit ==
    rpc = "exited" =>
       /\ stats_file # << >>
       /\ stats_file[1].generated_at = run_no

\* reference_cache.json held a snapshot when the call was made
SnapshotBefore(call) == call.before # << >> /\ call.before[1].ok

\* C19: a generate_reference_data call that finds a snapshot returns exactly what the
\* snapshot holds, builds nothing and leaves the file as it was; a call that finds no
\* file and succeeds leaves a snapshot, and every later call returns what it returned.
C19_CacheFirst ==
    /\ \A k \in 1..Len(ref_calls) :
          SnapshotBefore(ref_calls[k]) =>
             /\ json_dumps(ref_calls[k].data) = ref_calls[k].before[1]
             /\ ~ref_calls[k].built
             /\ ref_calls[k].after = ref_calls[k].before
    /\ \A j \in 1..Len(ref_calls) :
          (ref_calls[j].before = << >> /\ ~ref_calls[j].raised) =>
             /\ ref_calls[j].after # << >>
             /\ ref_calls[j].after[1].ok
             /\ \A k \in (j + 1)..Len(ref_calls) :
                   ref_calls[k].data = ref_calls[j].data

\* C19 witness: a first call without a file that succeeded, and a second call that
\* found the snapshot
C19_Witness ==
    /\ Len(ref_calls) = 2
    /\ ref_calls[1].before = << >>
    /\ ~ref_calls[1].raised
    /\ SnapshotBefore(ref_calls[2])

\* C20: once SIGINT or SIGTERM has arrived during the employee loop or a device loop,
\* no further per-entity iteration runs: the next one sees the signal and stops.
C20_SignalStopsGeneration ==
    (sig # "none" /\ sig_phase \in { "employees", "devices" }) => after_signal = 0

(***************************************************************************)
(* Claims settled last.                                                    *)
(***************************************************************************)
DeletePhase == { "del_query", "del_iter", "del_after", "del_final", "del_ret" }

\* C21: in upload_data every delete precedes every write: while a collection is still
\* being deleted nothing has been added to the write batch or committed as a write, and
\* once a write has been added or committed all three collections have been through
\* delete_collection.
C21_DeletesBeforeWrites ==
    /\ pc \in DeletePhase =>
          /\ batch = << >>
          /\ total_operations = 0
          /\ lastCommit[1] # "write"
    /\ (total_operations > 0 \/ batch # << >> \/ lastCommit[1] = "write") =>
          /\ ci = Len(collections_to_delete)
          /\ pc \notin DeletePhase

\* C21 witness: a run that deleted documents of the third collection and then committed
\* more than one batch of writes
C21_Witness ==
    /\ pc = "done"
    /\ total_operations > BATCH_SIZE
    /\ total_deleted > 0
    /\ lastCommit[1] = "write"

\* the device was received at a date strptime reads, and its score has been computed
Scored == cpc = "returned" /\ date_receipt # << >>

\* C22: the base score of a device lies in [80,100] when it was received at most 12
\* months ago, in [50,90] for 12 to 36 months and in [10,60] beyond, and the stored
\* score is the base plus a deviation in [-5,5], limited to [1,100].
C22_ScoreBands ==
    Scored =>
       /\ base_ctc \in generate_ctc_range(months_since_receipt(date_receipt))
       /\ jitter \in -5..5
       /\ ctc = IF base_ctc + jitter < 1 THEN 1
                ELSE IF base_ctc + jitter > 100 THEN 100 ELSE base_ctc + jitter

\* C23: the condition score of a device is an integer from 1 to 100, for every date of
\* receipt and when the computation took its error path.
C23_ScoreInRange == cpc = "returned" => ctc \in 1..100

\* C23 witness: a new device whose base and deviation add up to more than 100
C23_Witness == Scored /\ base_ctc + jitter > 100 /\ ctc = 100

\* how many of the first n employees live in city
Assigned(city, n) == Cardinality({ i \in 1..n : locations[i] = city })

\* the soft cap: target population / number of cities * 1.5
AtCap(city, n) == 2 * Len(CITIES) * Assigned(city, n) >= 3 * CityPopulation

\* C24: a city that has reached the soft cap is not chosen for a new employee while
\* another city is below the cap.
C24_CityCapRespected ==
    \A i \in 1..Len(locations) :
       AtCap(locations[i], i - 1) =>
          \A k \in 1..Len(CITIES) : AtCap(CITIES[k], i - 1)

\* the divisions of the next level that name d as their parent
Children(divs, d) ==
    { k \in 1..Len(divs) : divs[k].parent_id = << d.id >> /\ divs[k].level = d.level + 1 }

\* C25: generate_divisions returns a 4-level tree: with C centers there are C, 3C, 9C
\* and 27C divisions at levels 0 to 3, every division of levels 0, 1 and 2 has exactly
\* 3 children at the next level, and all ids and all names are distinct.
C25_DivisionTree ==
    gpc = "group" =>
       LET divs == generate_divisions
           C    == Len(centers)
       IN  /\ Len(level_groups(divs, 0)) = C
           /\ Len(level_groups(divs, 1)) = 3 * C
           /\ Len(level_groups(divs, 2)) = 9 * C
           /\ Len(level_groups(divs, 3)) = 27 * C
           /\ Len(divs) = 40 * C
           /\ \A k \in 1..Len(divs) :
                 divs[k].level \in 0..2 => Cardinality(Children(divs, divs[k])) = 3
           /\ \A j, k \in 1..Len(divs) :
                 j # k => (divs[j].id # divs[k].id /\ divs[j].name # divs[k].name)

\* C25 witness: the list has been built and holds sectors under every department
C25_Witness ==
    /\ gpc = "group"
    /\ Len(centers) > 1
    /\ \E k \in 1..Len(generate_divisions) :
          /\ generate_divisions[k].level = 3
          /\ generate_divisions[k].parent_id = << Len(centers) * 13 >>

\* the employees of the dataset with the id owner
Owners(owner) == { i \in 1..Len(employees) : employees[i].empID = owner }

\* C26: every device of the dataset generate_all_data builds is owned by an employee of
\* the same dataset, during and after the mandatory, the extras and the fill pass.
C26_OwnerExists ==
    pipeline = "generate_all_data" =>
       \A k \in 1..Len(devices) : Owners(devices[k].emp_id) # {}

\* C26 witness: a finished run in which one generate_employee call failed and the
\* devices of all three passes went to the employee that is left
C26_Witness ==
    /\ pipeline = "generate_all_data"
    /\ gpc = "done"
    /\ \E f \in failures : f[1] = "employee"
    /\ Len(employees) = 1
    /\ Len(devices) = MaxDevices
    /\ \E k \in 1..Len(devices) : devices[k].type = "LAPTOP"

\* C28: every laptop and every tablet of the dataset generate_all_data builds is owned
\* by an employee whose is_manager flag is true.
C28_ManagerOnlyTypes ==
    pipeline = "generate_all_data" =>
       \A k \in 1..Len(devices) :
          devices[k].type \in manager_only =>
             \A i \in Owners(devices[k].emp_id) : employees[i].is_manager

\* C27: whatever add_to_batch and commit_batch calls a caller makes, a failed commit
\* and further add_to_batch calls included, the number of pending operations never
\* exceeds BATCH_SIZE.
C27_BatchNeverOverfull == pc = "calls" => operation_count <= BATCH_SIZE

\* the ids of a list of records are pairwise distinct
DistinctIds(ids) == Cardinality(Range(ids)) = Len(ids)

\* the documents of a collection written by this sync
Written(c) == { d \in store[c] : d[2] = "new" }

\* C29: the employee ids and the device ids of a dataset are pairwise distinct, and
\* after upload_data has returned normally the employees and the devices collection
\* hold as many documents as the dataset has employees and devices.
C29_OneDocumentPerRecord ==
    pc = "done" =>
       /\ DistinctIds(data.employees)
       /\ DistinctIds(data.devices)
       /\ Cardinality(store["employees"]) = Len(data.employees)
       /\ Cardinality(store["devices"]) = Len(data.devices)

\* the ids the generator gives: distinct in every state of both pipelines
GeneratedIdsDistinct ==
    /\ DistinctIds([ i \in 1..Len(employees) |-> employees[i].empID ])
    /\ DistinctIds([ k \in 1..Len(devices) |-> devices[k].device_id ])

\* no record of the dataset has overwritten another: each one has its own document
RecordsKept ==
    pc = "done" =>
       /\ Cardinality(Written("employees")) = Len(data.employees)
       /\ Cardinality(Written("devices")) = Len(data.devices)

\* C30: after _generate_fios_batch(count) has returned, with count >= 1, the name cache
\* is not empty, whatever the service did: raised, answered with names, or answered
\* with an empty or blank text.
C30_CacheFilled == (tpc = "returned" /\ calls > 0) => fio_cache # << >>

====
